---- MODULE Spec2Model ----
(***************************************************************************)
(* A model of the timdimm_tng seeing pipeline: the aperture locator        *)
(* (find_apertures), the per-frame trackers (dimm_calc, hdimm_calc), the   *)
(* tracking loop of analyze_dimm_cube and the SER cube loader              *)
(* (load_ser_file).                                                        *)
(*                                                                         *)
(* Coordinates.  Centroids are floats in the code.  The model resolves     *)
(* half a pixel: a position is <<x, y>> in half-pixel units, and NaN is a  *)
(* position with non-finite coordinates.  Aperture radii stay in pixels,   *)
(* as in the code (ap_size).  A baseline length b = sqrt(dx^2 + dy^2)      *)
(* pixels is kept as its squared half-pixel length d2 = 4 b^2, so that     *)
(*     b < 0.5 * r   is   d2 < r * r                                       *)
(*     b >= r        is   d2 >= 4 * r * r                                  *)
(* with no rounding.                                                       *)
(***************************************************************************)
EXTENDS Integers, Sequences, FiniteSets, TLC

VARIABLES
    f_segs, f_brightest, f_out, f_pc,          \* find_apertures, as a pure function
    c_nap, c_aps, c_data, c_out, c_pc,         \* dimm_calc / hdimm_calc, as pure functions
    napertures, ap_size, apertures, nframes,   \* analyze_dimm_cube
    i, nbad, baselines, positions, fluxes, frame_times, pc, error, result,
    dimm_meas, entry_frame, caller, seeing_func, airmass,
    file, fp, output, s_pc, s_error,           \* load_ser_file
    q_sigma, q_config, q_direction, q_out, q_pc,   \* seeing, as a pure function
    seeing_data, pointing_status, csv_file, seeing_txt, sent, cube_at,
    a_pc, a_error,                             \* the postcapture script
    image_cube, nproc, input_shm, output_shm, returned_cube, taskqueue, worker,
    handled, u_pc,                             \* unwrap_fass_cube
    k_str, k_cmd, k_delay, k_out, k_sent, k_pc,    \* checksum and OxWagon.command
    w_limit, w_retries, w_log, w_ser, w_error, w_pc,   \* OxWagon.__init__
    d_file, d_fp, d_pc, d_lasterror, d_pid, d_printed, d_exit, d_did, d_roofs,
                                               \* ox_wagon_door_status
    t_wx, t_sun, t_stop, t_port, t_open_ok, t_sent, t_json, t_error, t_pc
                                               \* the status script

findVars == <<f_segs, f_brightest, f_out, f_pc>>
calcVars == <<c_nap, c_aps, c_data, c_out, c_pc>>
trackVars == <<napertures, ap_size, apertures, nframes, i, nbad, baselines,
               positions, fluxes, frame_times, pc, error, result, dimm_meas,
               entry_frame, caller, seeing_func, airmass>>
serVars == <<file, fp, output, s_pc, s_error>>
seeingVars == <<q_sigma, q_config, q_direction, q_out, q_pc>>
postVars == <<seeing_data, pointing_status, csv_file, seeing_txt, sent, cube_at,
              a_pc, a_error>>
poolVars == <<image_cube, nproc, input_shm, output_shm, returned_cube, taskqueue,
              worker, handled, u_pc>>
sumVars == <<k_str, k_cmd, k_delay, k_out, k_sent, k_pc>>
wagonVars == <<w_limit, w_retries, w_log, w_ser, w_error, w_pc>>
doorVars == <<d_file, d_fp, d_pc, d_lasterror, d_pid, d_printed, d_exit, d_did, d_roofs>>
statusVars == <<t_wx, t_sun, t_stop, t_port, t_open_ok, t_sent, t_json, t_error, t_pc>>
\* the enclosure and its scripts
oxVars == <<sumVars, wagonVars, doorVars, statusVars>>

vars == <<findVars, calcVars, trackVars, serVars, seeingVars, postVars, poolVars, oxVars>>

----------------------------------------------------------------------------
(* Bounds of the model *)

\* segments a detection may hold
MaxSegs == 4
\* distinct peak values (max_value) of the segments
MaxPeak == 2
\* leading frames of a cube whose content varies; every later frame is blank
MaxFree == 2
\* a cube holds up to MaxFree + 1 frames, or the bad-frame limit and up to
\* MaxExtra frames more
MaxExtra == 2
\* image motion scatters handed to seeing(), in hundredths of a pixel
MaxSigma == 3
\* bytes a SER file may hold after its header
MaxBody == 16
\* frames a SER header may announce
MaxCount == 2
\* bad frames an analysis may report beyond the limit of the postcapture script
MaxOver == 1
\* time stamps the analysed cube may hold
MaxStamps == 1
\* frames of the cube unwrap_fass_cube is given
MaxCube == 5
\* processes of its pool
MaxProc == 2
\* the longest frame body checksum is handed, in characters
MaxDigits == 4
\* the largest retry_limit an OxWagon is built with
MaxRetry == 4

----------------------------------------------------------------------------
(* Values *)

\* a centroid with non-finite coordinates
NaN == <<>>

\* np.sqrt(np.dot(base.T, base)) of a baseline with a NaN coordinate
NaNDist == -1

\* positions a source or a centroid may take (half-pixels).  With r = 15:
\* <<0,0>>-<<12,0>> is 0.4 r, <<0,0>>-<<15,0>> is 0.5 r, <<15,0>>-<<45,0>> is r,
\* and <<0,0>>, <<30,45>>, <<45,0>> are pairwise further than r.
Grid == {<<0, 0>>, <<12, 0>>, <<15, 0>>, <<30, 45>>, <<45, 0>>}

\* integrated fluxes: negative, exactly zero, positive
Fluxes == {-1, 0, 1}

SeqsUpTo(S, n) == UNION {[1..k -> S] : k \in 0..n}

Injective(s) == \A a, b \in DOMAIN s : a # b => s[a] # s[b]

\* what ApertureStats measures in one aperture
StatRows == [centroid : Grid \cup {NaN}, sum : Fluxes]

\* what SourceCatalog reports of one segment
SegRows == {[xcentroid |-> p[1], ycentroid |-> p[2], max_value |-> v] :
                p \in Grid, v \in 1..MaxPeak}

SegPos(row) == <<row.xcentroid, row.ycentroid>>

----------------------------------------------------------------------------
(* astropy Table.sort and slicing, as find_apertures uses them *)

RECURSIVE InsertRow(_, _, _)
InsertRow(t, row, key) ==
    IF t = <<>> THEN <<row>>
    ELSE IF row[key] < Head(t)[key] THEN <<row>> \o t
    ELSE <<Head(t)>> \o InsertRow(Tail(t), row, key)

\* t.sort(key): ascending, rows of equal key keep their order
RECURSIVE TableSort(_, _)
TableSort(t, key) ==
    IF t = <<>> THEN <<>>
    ELSE InsertRow(TableSort(SubSeq(t, 1, Len(t) - 1), key), t[Len(t)], key)

\* t[:n]
FirstRows(t, n) == IF Len(t) <= n THEN t ELSE SubSeq(t, 1, n)

\* t[-n:]
LastRows(t, n) == IF Len(t) <= n THEN t ELSE SubSeq(t, Len(t) - n + 1, Len(t))

\* CircularAperture(positions, r)
CircularAperture(pos, r) == [positions |-> pos, r |-> r]

\* stars.sort("xcentroid") forgotten
UnsortedStars(stars) == stars

\* stars.sort("xcentroid")
SortStars(stars) == TableSort(stars, "xcentroid")

\* find_apertures(data, brightest=..., ap_size=...): segs is the catalogue of
\* the segments detected in data, in the order they were discovered.  With no
\* segment SourceFinder returns None and SourceCatalog raises.
FindApertures(segs, brightest, r) ==
    IF segs = <<>>
    THEN [raised |-> TRUE, aps |-> CircularAperture(<<>>, r)]
    ELSE LET t == TableSort(segs, "max_value")
             stars == SortStars(LastRows(t, brightest))
         IN [raised |-> FALSE,
             aps |-> CircularAperture([k \in 1..Len(stars) |-> SegPos(stars[k])], r)]

----------------------------------------------------------------------------
(* dimm_calc and hdimm_calc *)

\* A frame, as the trackers see it: first is what ApertureStats measures in
\* the apertures handed in, segs is what find_apertures detects in the frame,
\* second is what ApertureStats measures in the apertures find_apertures
\* returns.
ApertureStats(data, pass) == IF pass = 1 THEN data.first ELSE data.second

\* ap_stats.centroid
Centroid(ap_stats) == [k \in DOMAIN ap_stats |-> ap_stats[k].centroid]

\* ap_stats.sum
Sum(ap_stats) == [k \in DOMAIN ap_stats |-> ap_stats[k].sum]

\* np.isfinite(ap_pos).all()
AllFinite(ap_pos) == \A k \in DOMAIN ap_pos : ap_pos[k] # NaN

\* np.sqrt(np.dot(base.T, base)) for base = q - p, as a squared half-pixel length
Dist(p, q) ==
    IF p = NaN \/ q = NaN THEN NaNDist
    ELSE (q[1] - p[1]) * (q[1] - p[1]) + (q[2] - p[2]) * (q[2] - p[2])

\* b <= 0.5 * aps.r
OverlapInclusive(d, r) == d # NaNDist /\ d <= r * r

\* b < 0.5 * aps.r, for b the length whose squared half-pixel value is d
Overlap(d, r) == d # NaNDist /\ d < r * r

\* the three baselines of hdimm_calc
Bases(ap_pos) ==
    <<Dist(ap_pos[1], ap_pos[2]), Dist(ap_pos[1], ap_pos[3]), Dist(ap_pos[2], ap_pos[3])>>

\* np.all(ap_stats.sum >= 0)
AllNonNegative(sum) == \A k \in DOMAIN sum : sum[k] >= 0

\* np.all(ap_stats.sum > 0)
AllPositive(sum) == \A k \in DOMAIN sum : sum[k] > 0

\* np.any(ap_stats.sum < 0)
AnyNegative(sum) == \E k \in DOMAIN sum : sum[k] < 0

\* The outcome of a call: kind is "meas" (a tuple is returned), "None", or the
\* name of the exception that leaves the function.  redetected tells whether
\* find_apertures was called.
Returned(new_aps, dists, sum, redetected) ==
    [kind |-> "meas", aps |-> new_aps, dists |-> dists, sum |-> sum,
     redetected |-> redetected]

ReturnedNone(redetected) ==
    [kind |-> "None", aps |-> CircularAperture(<<>>, 0), dists |-> <<>>, sum |-> <<>>,
     redetected |-> redetected]

Raised(name) ==
    [kind |-> name, aps |-> CircularAperture(<<>>, 0), dists |-> <<>>, sum |-> <<>>,
     redetected |-> FALSE]

\* [d_base1, d_base2, d_base3] of hdimm_calc, [dist_baseline] of dimm_calc
Baselines(n, ap_pos) ==
    IF n = 2 THEN <<Dist(ap_pos[1], ap_pos[2])>> ELSE Bases(ap_pos)

\* the last check of both trackers (analyze_cube.py lines 243 and 274) and
\* the tuple they return
LastCheck(n, new_aps, ap_stats, redetected) ==
    IF ~AllFinite(Centroid(ap_stats)) \/ Len(ap_stats) # n \/ AnyNegative(Sum(ap_stats))
    THEN ReturnedNone(redetected)
    ELSE Returned(new_aps, Baselines(n, Centroid(ap_stats)), Sum(ap_stats), redetected)

\* the first validation of hdimm_calc (lines 216-225)
HdimmFirstPass(ap_stats, d, r) ==
    /\ AllFinite(Centroid(ap_stats))
    /\ Len(ap_stats) = 3
    /\ AllPositive(Sum(ap_stats))
    /\ ~ \E k \in 1..3 : Overlap(d[k], r)

HdimmCalc(data, aps) ==
    LET ap_stats == ApertureStats(data, 1)
        ap_pos == Centroid(ap_stats)
    IN  IF Len(ap_pos) < 3
        THEN Raised("IndexError")
        ELSE
          IF HdimmFirstPass(ap_stats, Bases(ap_pos), aps.r)
          THEN LastCheck(3, CircularAperture(ap_pos, aps.r), ap_stats, FALSE)
          ELSE LET found == FindApertures(data.segs, 3, aps.r)
                   re_stats == ApertureStats(data, 2)
               IN  IF found.raised \/ Len(re_stats) < 3
                   THEN ReturnedNone(TRUE)
                   ELSE LastCheck(3, found.aps, re_stats, TRUE)

\* the first validation of dimm_calc (line 264)
DimmFirstPass(ap_stats) ==
    /\ AllFinite(Centroid(ap_stats))
    /\ Len(ap_stats) = 2
    /\ AllPositive(Sum(ap_stats))

DimmCalc(data, aps) ==
    LET ap_stats == ApertureStats(data, 1)
        ap_pos == Centroid(ap_stats)
    IN  IF DimmFirstPass(ap_stats)
        THEN LastCheck(2, CircularAperture(ap_pos, aps.r), ap_stats, FALSE)
        ELSE LET found == FindApertures(data.segs, 2, aps.r)
             IN  IF found.raised
                 THEN ReturnedNone(TRUE)
                 ELSE LastCheck(2, found.aps, ApertureStats(data, 2), TRUE)

----------------------------------------------------------------------------
(* find_apertures as a pure function of the detected segments *)

\* analyze_dimm_cube's ap_size when the caller gives none
DefaultApSize(n) == IF n = 2 THEN 11 ELSE 15

FindInputs == {s \in SeqsUpTo(SegRows, MaxSegs) : Injective([k \in DOMAIN s |-> SegPos(s[k])])}

FindInit ==
    /\ f_segs \in FindInputs
    /\ f_brightest \in {2, 3}
    /\ f_out = [raised |-> FALSE, aps |-> CircularAperture(<<>>, 0)]
    /\ f_pc = "call"

FindCall ==
    /\ f_pc = "call"
    /\ f_out' = FindApertures(f_segs, f_brightest, DefaultApSize(f_brightest))
    /\ f_pc' = "returned"
    /\ UNCHANGED <<f_segs, f_brightest>>
    /\ UNCHANGED <<calcVars, trackVars, serVars, seeingVars, postVars, poolVars, oxVars>>

----------------------------------------------------------------------------
(* dimm_calc and hdimm_calc as pure functions of the frame and the apertures *)

\* three sources further apart than any aperture radius, in x order; the first
\* two stand nearly above each other
RefPositions == <<<<0, 0>>, <<1, 45>>, <<45, 0>>>>

Min(a, b) == IF a < b THEN a ELSE b

\* a star centred in each aperture
Centred(pos) == [k \in DOMAIN pos |-> [centroid |-> pos[k], sum |-> 1]]

\* nothing measurable in any aperture
Blank(k) == [j \in 1..k |-> [centroid |-> NaN, sum |-> 0]]

\* the catalogue of sources at the given positions, all of one peak value
Catalogue(pos) ==
    [k \in DOMAIN pos |-> [xcentroid |-> pos[k][1], ycentroid |-> pos[k][2], max_value |-> 1]]

\* catalogues of up to three sources discovered from right to left
Leftward(s) ==
    \A k \in 1..(Len(s) - 1) :
        \/ s[k][1] > s[k + 1][1]
        \/ s[k][1] = s[k + 1][1] /\ s[k][2] > s[k + 1][2]

CalcCatalogues == {Catalogue(s) : s \in {q \in SeqsUpTo(Grid, 3) : Leftward(q)}}

Pending == [kind |-> "pending", aps |-> CircularAperture(<<>>, 0), dists |-> <<>>,
            sum |-> <<>>, redetected |-> FALSE]

\* The inputs.  The apertures handed in are the first k reference positions.
\* Either the first measurement is arbitrary and the frame shows no source or
\* the reference sources, or the first measurement is blank and the detection
\* and the second measurement are arbitrary.
CalcInit ==
    /\ c_nap \in {2, 3}
    /\ \E k \in 1..c_nap :
         /\ c_aps = CircularAperture(SubSeq(RefPositions, 1, k), DefaultApSize(c_nap))
         /\ \/ \E st \in [1..k -> StatRows] :
                    c_data = [first |-> st, segs |-> <<>>, second |-> <<>>]
            \/ \E st \in [1..k -> StatRows] :
                    c_data = [first |-> st,
                              segs |-> Catalogue(SubSeq(RefPositions, 1, c_nap)),
                              second |-> Centred(SubSeq(RefPositions, 1, c_nap))]
            \/ /\ k = c_nap
               /\ \E sg \in CalcCatalogues :
                    \E st \in [1..Min(Len(sg), c_nap) -> StatRows] :
                        c_data = [first |-> Blank(k), segs |-> sg, second |-> st]
    /\ c_out = Pending
    /\ c_pc = "call"

CallDimmCalc ==
    /\ c_pc = "call"
    /\ c_nap = 2
    /\ c_out' = DimmCalc(c_data, c_aps)
    /\ c_pc' = "returned"
    /\ UNCHANGED <<c_nap, c_aps, c_data>>
    /\ UNCHANGED <<findVars, trackVars, serVars, seeingVars, postVars, poolVars, oxVars>>

CallHdimmCalc ==
    /\ c_pc = "call"
    /\ c_nap = 3
    /\ c_out' = HdimmCalc(c_data, c_aps)
    /\ c_pc' = "returned"
    /\ UNCHANGED <<c_nap, c_aps, c_data>>
    /\ UNCHANGED <<findVars, trackVars, serVars, seeingVars, postVars, poolVars, oxVars>>

----------------------------------------------------------------------------
(* seeing.  The code computes in floating point.  The model keeps every       *)
(* real factor as a symbol and a value as the product of powers of the        *)
(* symbols, the exponents counted in tenths, together with what each symbol   *)
(* stands for.  Lengths are in tenths of a millimetre, the wavelength in      *)
(* hundredths of a micron, the pixel scale in thousandths of an arc second.   *)

Symbols == {"0.98", "aperture_diameter/wavelength", "sigma", "pixel_scale", "k", "airmass"}

\* the factor s
Sym(s) == [x \in Symbols |-> IF x = s THEN 10 ELSE 0]

\* a * b
Mul(a, b) == [x \in Symbols |-> a[x] + b[x]]

\* a / b
Div(a, b) == [x \in Symbols |-> a[x] - b[x]]

\* a ** (p / 10)
Pow(a, p) == [x \in Symbols |-> (a[x] * p) \div 10]

\* the coefficient 0.364 * (1 + c1 * b ** (-1/3) + c2 * b ** (-7/3)), c1 and c2
\* in thousandths, for b the ratio of baseline to aperture diameter
KCoefficient(c1, c2, baseline, aperture_diameter) ==
    [factor |-> 364, c1 |-> c1, c2 |-> c2,
     b |-> [baseline |-> baseline, aperture_diameter |-> aperture_diameter]]

\* a seeing value: the powers of the symbols and what the symbols stand for;
\* the air mass is empty as long as none is applied
Quantity(exps, sigma, pixel_scale, k, aperture_diameter, wavelength, unit) ==
    [raised |-> "", exps |-> exps, sigma |-> sigma, pixel_scale |-> pixel_scale, k |-> k,
     aperture_diameter |-> aperture_diameter, wavelength |-> wavelength,
     airmass |-> <<>>, unit |-> unit]

\* no value: the exception that left the function
NoQuantity(name) ==
    [raised |-> name, exps |-> Sym("none"), sigma |-> <<>>, pixel_scale |-> 0,
     k |-> KCoefficient(0, 0, 0, 0), aperture_diameter |-> 0, wavelength |-> 0,
     airmass |-> <<>>, unit |-> ""]

\* seeing() taking every direction it does not know for the longitudinal one
SeeingOfAnyDirection(sigma, baseline, aperture_diameter, wavelength, pixel_scale, direction) ==
    Quantity(Mul(Mul(Sym("0.98"), Pow(Sym("aperture_diameter/wavelength"), 2)),
                 Pow(Div(Pow(Mul(Sym("sigma"), Sym("pixel_scale")), 20), Sym("k")), 6)),
             sigma, pixel_scale,
             IF direction = "transverse"
             THEN KCoefficient(-798, 18, baseline, aperture_diameter)
             ELSE KCoefficient(-532, -24, baseline, aperture_diameter),
             aperture_diameter, wavelength, "arcsec")

\* seeing(sigma, baseline, aperture_diameter, wavelength, pixel_scale, direction)
Seeing(sigma, baseline, aperture_diameter, wavelength, pixel_scale, direction) ==
    LET sigma_rad == Mul(Sym("sigma"), Sym("pixel_scale"))
        variance == Pow(sigma_rad, 20)
        k == [longitudinal |-> KCoefficient(-532, -24, baseline, aperture_diameter),
              transverse |-> KCoefficient(-798, 18, baseline, aperture_diameter)]
    IN  IF direction \notin DOMAIN k
        THEN NoQuantity("ValueError")
        ELSE Quantity(Mul(Mul(Sym("0.98"), Pow(Sym("aperture_diameter/wavelength"), 2)),
                          Pow(Div(variance, Sym("k")), 6)),
                      sigma, pixel_scale, k[direction], aperture_diameter, wavelength,
                      "arcsec")

\* seeing(sigma) with the defaults of its signature
HdimmSeeing(sigma) == Seeing(sigma, 1430, 762, 64, 742, "longitudinal")

\* massdimm_seeing(sigma)
MassdimmSeeing(sigma) == Seeing(sigma, 1700, 700, 64, 742, "longitudinal")

\* timdimm_seeing(sigma)
TimdimmSeeing(sigma) == Seeing(sigma, 2000, 500, 64, 742, "longitudinal")

\* direction names a caller may hand in
Directions == {"longitudinal", "transverse", "Longitudinal", "radial", ""}

\* the physical configurations handed in: the baselines and aperture
\* diameters of the three instruments, in every combination
Configs ==
    [baseline : {1430, 1700, 2000}, aperture_diameter : {762, 700, 500},
     wavelength : {64}, pixel_scale : {742}]

SeeingInit ==
    /\ q_sigma \in 0..MaxSigma
    /\ q_config \in Configs
    /\ q_direction \in Directions
    /\ q_out = NoQuantity("")
    /\ q_pc = "call"

CallSeeing ==
    /\ q_pc = "call"
    /\ q_out' = Seeing(q_sigma, q_config.baseline, q_config.aperture_diameter,
                       q_config.wavelength, q_config.pixel_scale, q_direction)
    /\ q_pc' = "returned"
    /\ UNCHANGED <<q_sigma, q_config, q_direction>>
    /\ UNCHANGED <<findVars, calcVars, trackVars, serVars, postVars, poolVars, oxVars>>

----------------------------------------------------------------------------
(* analyze_dimm_cube: the reference detection, the tracking loop, the result *)

\* the bad-frame limit of the tracking loop
BadLimit == 100

\* nbad >= 100
AtBadLimit(n) == n >= BadLimit

\* nbad > 100
OverBadLimit(n) == n > BadLimit

\* the exceptions that leave analyze_dimm_cube
NoSegments == "find_apertures: no segment"
BadFrameLimit == "Hit 100 bad frame limit."

Reverse(s) == [k \in DOMAIN s |-> s[Len(s) + 1 - k]]

\* frame counts of the cubes analysed
NFrames == (0..(MaxFree + 1)) \cup (BadLimit..(BadLimit + MaxExtra))

\* what the reference image (the mean of the first frames) shows: nothing, or
\* the first m reference sources, discovered from right to left; the mean of
\* no frame at all shows nothing
RefCatalogues(n) ==
    {Catalogue(Reverse(SubSeq(RefPositions, 1, m))) : m \in 0..(IF n = 0 THEN 0 ELSE 3)}

\* the star images of the apertures in J have moved one pixel to the right
Jittered(pos, J) ==
    [k \in DOMAIN pos |-> IF k \in J THEN <<pos[k][1] + 2, pos[k][2]>> ELSE pos[k]]

\* a star centred in each aperture, of zero integrated flux
Faint(pos) == [k \in DOMAIN pos |-> [centroid |-> pos[k], sum |-> 0]]

\* a frame with no star at all
BlankFrame(k) == [first |-> Blank(k), segs |-> <<>>, second |-> <<>>]

\* The frames of the varying part of a cube.  In the apertures handed in the
\* stars are found where they were or a pixel to the right, or nothing is
\* measured.  A detection in the frame sees nothing, the n reference sources
\* (bright or faint), or the first of them only.
TrackData(n, aps) ==
    LET pos == aps.positions
        firsts == {Centred(Jittered(pos, J)) : J \in SUBSET (DOMAIN pos)}
                      \cup {Blank(Len(pos))}
        ref == SubSeq(RefPositions, 1, n)
        again == {[segs |-> <<>>, second |-> <<>>],
                  [segs |-> Catalogue(Reverse(ref)), second |-> Centred(ref)],
                  [segs |-> Catalogue(Reverse(ref)), second |-> Faint(ref)],
                  [segs |-> Catalogue(<<ref[1]>>), second |-> Centred(<<ref[1]>>)]}
    IN  {[first |-> f, segs |-> a.segs, second |-> a.second] : f \in firsts, a \in again}

\* apertures.positions.mean(axis=0), times the number of apertures
PositionSum(pos) ==
    LET RECURSIVE Total(_, _)
        Total(k, c) == IF k = 0 THEN 0 ELSE pos[k][c] + Total(k - 1, c)
    IN  <<Total(Len(pos), 1), Total(Len(pos), 2)>>

\* np.array(rows).transpose()
Transpose(rows) ==
    IF rows = <<>> THEN <<>>
    ELSE [b \in 1..Len(rows[1]) |-> [f \in 1..Len(rows) |-> rows[f][b]]]

\* a series with an entry for every frame, valid or not
AppendAlways(series, entry, valid) == Append(series, entry)

\* lines 342-346: a series grows by the entry of a frame that was measured
AppendMeasured(series, entry, valid) == IF valid THEN Append(series, entry) ELSE series

NoResult == [returned |-> FALSE]

\* the apertures of the last call, whatever it returned
LastApertures(meas, aps) == meas.aps

\* line 343: the apertures are replaced by those of a measurement only
KeptApertures(meas, aps) == IF meas.kind = "meas" THEN meas.aps ELSE aps

\* the defaults of analyze_dimm_cube's signature
Defaults == [napertures |-> 2, seeing_func |-> "timdimm_seeing"]

\* hdimm_analyze with the seeing_func argument left out
HdimmCallByDefault == [Defaults EXCEPT !.napertures = 3]

\* the call of timdimm_analyze: analyze_dimm_cube(filename, airmass, plot)
TimdimmAnalyzeCall == Defaults

\* the call of hdimm_analyze: seeing_func=seeing, napertures=3
HdimmAnalyzeCall == [napertures |-> 3, seeing_func |-> "seeing"]

\* the call of the postcapture script: analyze_dimm_cube(filename, airmass)
PostcaptureCall == Defaults

\* a call of the function by other code, with napertures given and seeing_func
\* left out
DirectCall == [Defaults EXCEPT !.napertures = 3]

\* who calls analyze_dimm_cube, and with what
Calls ==
    {[caller |-> "timdimm_analyze", args |-> TimdimmAnalyzeCall],
     [caller |-> "hdimm_analyze", args |-> HdimmAnalyzeCall],
     [caller |-> "postcapture", args |-> PostcaptureCall],
     [caller |-> "direct", args |-> DirectCall]}

\* the air mass handed in, in tenths
Airmasses == {15}

\* seeing_func(baseline_std)
SeeingFunc(name, sigma) ==
    CASE name = "seeing" -> HdimmSeeing(sigma)
      [] name = "massdimm_seeing" -> MassdimmSeeing(sigma)
      [] name = "timdimm_seeing" -> TimdimmSeeing(sigma)

\* the third value stats.sigma_clipped_stats(baseline, sigma=10, maxiters=10)
\* returns: the clipped standard deviation of the series
ClippedStd(series) == [clipped_std |-> series, sigma |-> 10, maxiters |-> 10]

\* the air mass forgotten
IgnoreAirmass(q, z) == q

\* q / airmass ** 0.6
DivAirmass(q, z) ==
    [q EXCEPT !.exps = Div(q.exps, Pow(Sym("airmass"), 6)), !.airmass = <<z>>]

\* u.Quantity(seeing_vals).mean(): not a number for no value at all
Mean(seeing_vals) == [mean_of |-> seeing_vals, nan |-> seeing_vals = <<>>]

\* lines 356-360: a seeing value per row of the transposed baselines
SeeingVals(rows, func, z) ==
    [b \in DOMAIN rows |-> DivAirmass(SeeingFunc(func, ClippedStd(rows[b])), z)]

TrackInit ==
    /\ \E call \in Calls :
         /\ caller = call.caller
         /\ napertures = call.args.napertures
         /\ seeing_func = call.args.seeing_func
    /\ airmass \in Airmasses
    /\ nframes \in NFrames
    /\ frame_times = [k \in 1..nframes |-> k]
    /\ ap_size = 0
    /\ apertures = CircularAperture(<<>>, 0)
    /\ i = 0
    /\ nbad = 0
    /\ baselines = <<>>
    /\ positions = <<>>
    /\ fluxes = <<>>
    /\ entry_frame = <<>>
    /\ dimm_meas = Pending
    /\ pc = "start"
    /\ error = ""
    /\ result = NoResult

\* lines 310-332: load the cube, find the apertures in the reference image
Setup ==
    /\ pc = "start"
    /\ \E ref \in RefCatalogues(nframes) :
         LET found == FindApertures(ref, napertures, DefaultApSize(napertures))
         IN  /\ ap_size' = DefaultApSize(napertures)
             /\ IF found.raised
                THEN /\ pc' = "raised"
                     /\ error' = NoSegments
                     /\ UNCHANGED apertures
                ELSE /\ pc' = "loop"
                     /\ apertures' = found.aps
                     /\ UNCHANGED error
    /\ UNCHANGED <<napertures, nframes, i, nbad, baselines, positions, fluxes,
                   frame_times, result, dimm_meas, entry_frame, caller, seeing_func,
                   airmass>>
    /\ UNCHANGED <<findVars, calcVars, serVars, seeingVars, postVars, poolVars, oxVars>>

\* lines 335-351: one iteration of the tracking loop on frame i
Iteration(data) ==
    LET meas == IF napertures = 2 THEN DimmCalc(data, apertures)
                ELSE HdimmCalc(data, apertures)
        valid == meas.kind = "meas"
        bad == IF valid THEN nbad ELSE nbad + 1
    IN  /\ dimm_meas' = meas
        /\ IF meas.kind \notin {"meas", "None"}
           THEN /\ pc' = "raised"
                /\ error' = meas.kind
                /\ UNCHANGED <<apertures, baselines, positions, fluxes, entry_frame,
                               nbad, i>>
           ELSE /\ apertures' = KeptApertures(meas, apertures)
                /\ baselines' = AppendMeasured(baselines, meas.dists, valid)
                /\ positions' =
                       AppendMeasured(positions,
                                      IF valid THEN PositionSum(meas.aps.positions) ELSE <<>>,
                                      valid)
                /\ fluxes' = AppendMeasured(fluxes, meas.sum, valid)
                /\ entry_frame' = AppendMeasured(entry_frame, i, valid)
                /\ nbad' = bad
                /\ IF OverBadLimit(bad)
                   THEN pc' = "raised" /\ error' = BadFrameLimit /\ UNCHANGED i
                   ELSE pc' = "loop" /\ i' = i + 1 /\ UNCHANGED error
        /\ UNCHANGED <<napertures, ap_size, nframes, frame_times, result, caller,
                       seeing_func, airmass>>

\* a frame of the varying part of the cube
TrackFrame ==
    /\ pc = "loop"
    /\ i < nframes
    /\ i < MaxFree
    /\ \E data \in TrackData(napertures, apertures) : Iteration(data)
    /\ UNCHANGED <<findVars, calcVars, serVars, seeingVars, postVars, poolVars, oxVars>>

\* a frame of the blank rest of the cube
TrackBlankFrame ==
    /\ pc = "loop"
    /\ i < nframes
    /\ i >= MaxFree
    /\ Iteration(BlankFrame(Len(apertures.positions)))
    /\ UNCHANGED <<findVars, calcVars, serVars, seeingVars, postVars, poolVars, oxVars>>

\* lines 353-373: the loop is over, the result is assembled
Finish ==
    /\ pc = "loop"
    /\ i = nframes
    /\ pc' = "done"
    /\ result' = [returned |-> TRUE,
                  seeing |-> Mean(SeeingVals(Transpose(baselines), seeing_func, airmass)),
                  raw_seeing |-> SeeingVals(Transpose(baselines), seeing_func, airmass),
                  baseline_lengths |-> Transpose(baselines),
                  aperture_positions |-> Transpose(positions),
                  aperture_fluxes |-> fluxes,
                  frame_times |-> frame_times,
                  N_bad |-> nbad]
    /\ UNCHANGED <<napertures, ap_size, apertures, nframes, i, nbad, baselines,
                   positions, fluxes, frame_times, error, dimm_meas, entry_frame,
                   caller, seeing_func, airmass>>
    /\ UNCHANGED <<findVars, calcVars, serVars, seeingVars, postVars, poolVars, oxVars>>

----------------------------------------------------------------------------
(* load_ser_file.  A file is a sequence of bytes; fp is the number of bytes    *)
(* read so far.                                                                *)

\* "LUCAM-RECORDER", the content of 1_FileID
FileID == <<76, 85, 67, 65, 77, 45, 82, 69, 67, 79, 82, 68, 69, 82>>

\* the bytes fp.read(n) returns at offset at
Read(f, at, n) == SubSeq(f, at + 1, Min(at + n, Len(f)))

\* unpack("<I", b)[0], and a little-endian sample of np.frombuffer
RECURSIVE Unpack(_)
Unpack(b) == IF b = <<>> THEN 0 ELSE b[1] + 256 * Unpack(Tail(b))

\* struct.pack of v in n little-endian bytes
RECURSIVE Pack(_, _)
Pack(v, n) == IF n = 0 THEN <<>> ELSE <<v % 256>> \o Pack(v \div 256, n - 1)

\* bytes.decode() succeeds: the model's files hold ASCII and the byte 255
Decodes(b) == \A k \in DOMAIN b : b[k] < 128

Whitespace == (9..13) \cup (28..32)

\* str.strip()
RECURSIVE LStrip(_)
LStrip(b) == IF b # <<>> /\ b[1] \in Whitespace THEN LStrip(Tail(b)) ELSE b

Strip(b) == Reverse(LStrip(Reverse(LStrip(b))))

\* unpack("<Q", b)[0] and a np.uint64: a 64-bit value exceeds the integers of
\* the model checker and is kept as its eight bytes, lowest first
Unpack64(b) == b

\* parse_time(timestamp): the time, kept as the tick count it is computed from
ParseTime(ticks) == [ticks |-> ticks]

\* output["color_id"] in (Color_ID.RGB, Color_ID.BGR): an int read from the
\* file is compared with members of a plain Enum, which equal no int
InRgbEnum(color_id) == FALSE

\* the header widths with name fields of 32 bytes
ShortNameWidths == <<14, 4, 4, 4, 4, 4, 4, 4, 32, 32, 32, 8, 8>>

\* the widths of the header fields, in the order load_ser_file reads them:
\* file_id, lu_id, color_id, littleendian, im_width, im_height,
\* pix_depth_per_plane, nframe, observer, instrument, telescope, dateobs,
\* dateobs_utc
HeaderWidths == <<14, 4, 4, 4, 4, 4, 4, 4, 40, 40, 40, 8, 8>>

\* the position of the file pointer before the k-th header field is read
RECURSIVE Offset(_)
Offset(k) == IF k = 1 THEN 0 ELSE Offset(k - 1) + HeaderWidths[k - 1]

\* the bytes the read of the k-th header field returns
Field(f, k) == Read(f, Offset(k), HeaderWidths[k])

\* a buffer of any length accepted, the bytes of a partial item dropped
AnyItems(buf, size) == TRUE

\* np.frombuffer accepts a buffer that holds whole items only
WholeItems(buf, size) == Len(buf) % size = 0

\* a 40-byte name field, filled with zero bytes
Name40(b) == b \o [k \in 1..(40 - Len(b)) |-> 0]

\* a file in the layout of the format: the header and what follows it
SerFile(tag, color_id, little, width, height, depth, nframe, body) ==
    tag \o Pack(0, 4) \o Pack(color_id, 4) \o Pack(little, 4) \o Pack(width, 4)
        \o Pack(height, 4) \o Pack(depth, 4) \o Pack(nframe, 4)
        \o Name40(<<111, 98, 115>>) \o Name40(<<99, 97, 109>>) \o Name40(<<116, 101, 108>>)
        \o Pack(1000, 8) \o Pack(2000, 8) \o body

\* tags: the expected one, one with another first letter, one that is not text
Tags == {FileID, [FileID EXCEPT ![1] = 88], [FileID EXCEPT ![1] = 255]}

\* colour codes: MONO, BAYER_RGGB, an unlisted one below 100, RGB, BGR
ColorIDs == {0, 8, 99, 100, 101}

\* the k-th byte after the header
BodyByte(k) == (k * 37) % 256

SerFiles ==
    {SerFile(tag, c, le, w, 1, d, n, [k \in 1..len |-> BodyByte(k)]) :
        tag \in Tags, c \in ColorIDs, le \in {0, 1}, w \in {1, 2}, d \in {8, 9, 16},
        n \in 0..MaxCount, len \in 0..MaxBody}

\* files cut short inside the header
CutFiles == {SubSeq(SerFile(FileID, 0, 1, 1, 1, 8, 1, <<>>), 1, cut) : cut \in {0, 16, 100, 170}}

NoOutput ==
    [file_id |-> <<>>, lu_id |-> 0, color_id |-> 0, nplanes |-> 0, littleendian |-> 0,
     im_width |-> 0, im_height |-> 0, pix_depth_per_plane |-> 0, bytes_per_pixel |-> 0,
     nframe |-> 0, observer |-> <<>>, instrument |-> <<>>, telescope |-> <<>>,
     dateobs |-> ParseTime(<<>>), dateobs_utc |-> ParseTime(<<>>), data |-> <<>>, frame_times |-> <<>>]

SerInit ==
    /\ file \in SerFiles \cup CutFiles
    /\ fp = 0
    /\ output = NoOutput
    /\ s_pc = "open"
    /\ s_error = ""

\* lines 78-178: the header fields, read one after the other
ReadHeader ==
    /\ s_pc = "open"
    /\ LET int(k) == Unpack(Field(file, k))
           color_id == int(3)
           depth == int(7)
           nplanes == IF InRgbEnum(color_id) THEN 3 ELSE 1
           end == Offset(Len(HeaderWidths)) + HeaderWidths[Len(HeaderWidths)]
       IN  IF ~Decodes(Field(file, 1))
           THEN s_pc' = "raised" /\ s_error' = "UnicodeDecodeError"
                    /\ fp' = Min(Offset(2), Len(file)) /\ UNCHANGED output
           ELSE IF Len(file) < Offset(9)
           THEN s_pc' = "raised" /\ s_error' = "struct.error"
                    /\ fp' = Len(file) /\ UNCHANGED output
           ELSE IF \E k \in 9..11 : ~Decodes(Field(file, k))
           THEN s_pc' = "raised" /\ s_error' = "UnicodeDecodeError"
                    /\ fp' = Min(Offset(12), Len(file)) /\ UNCHANGED output
           ELSE IF Len(file) < end
           THEN s_pc' = "raised" /\ s_error' = "struct.error"
                    /\ fp' = Len(file) /\ UNCHANGED output
           ELSE /\ output' = [output EXCEPT
                       !.file_id = Strip(Field(file, 1)),
                       !.lu_id = int(2),
                       !.color_id = color_id,
                       !.nplanes = nplanes,
                       !.littleendian = int(4),
                       !.im_width = int(5),
                       !.im_height = int(6),
                       !.pix_depth_per_plane = depth,
                       !.bytes_per_pixel = IF depth < 9 THEN nplanes ELSE 2 * nplanes,
                       !.nframe = int(8),
                       !.observer = Strip(Field(file, 9)),
                       !.instrument = Strip(Field(file, 10)),
                       !.telescope = Strip(Field(file, 11)),
                       !.dateobs = ParseTime(Unpack64(Field(file, 12))),
                       !.dateobs_utc = ParseTime(Unpack64(Field(file, 13)))]
                /\ fp' = end
                /\ s_pc' = "header"
                /\ UNCHANGED s_error
    /\ UNCHANGED file
    /\ UNCHANGED <<findVars, calcVars, trackVars, seeingVars, postVars, poolVars, oxVars>>

\* np.frombuffer(buf, dtype=np.uint8) and np.frombuffer(buf, dtype=np.uint16)
FromBuffer(buf, size) ==
    [k \in 1..(Len(buf) \div size) |-> Unpack(SubSeq(buf, size * (k - 1) + 1, size * k))]

\* lines 182-195: the pixel bytes, as samples of (nframe, im_height, im_width)
ReadData ==
    /\ s_pc = "header"
    /\ LET want == output.nframe * output.im_width * output.im_height
                       * output.bytes_per_pixel
           data_buf == Read(file, fp, want)
           size == IF output.bytes_per_pixel = 1 THEN 1 ELSE 2
           samples == FromBuffer(data_buf, size)
       IN  /\ fp' = fp + Len(data_buf)
           /\ IF ~WholeItems(data_buf, size)
                  \/ Len(samples) # output.nframe * output.im_height * output.im_width
              THEN s_pc' = "raised" /\ s_error' = "ValueError" /\ UNCHANGED output
              ELSE /\ output' = [output EXCEPT !.data = samples]
                   /\ s_pc' = "data"
                   /\ UNCHANGED s_error
    /\ UNCHANGED file
    /\ UNCHANGED <<findVars, calcVars, trackVars, seeingVars, postVars, poolVars, oxVars>>

\* lines 199-202: what is left of the file, as 64-bit time stamps
ReadTrailer ==
    /\ s_pc = "data"
    /\ LET trailer_buf == Read(file, fp, Len(file))
       IN  /\ fp' = Len(file)
           /\ IF ~WholeItems(trailer_buf, 8)
              THEN s_pc' = "raised" /\ s_error' = "ValueError" /\ UNCHANGED output
              ELSE /\ output' = [output EXCEPT !.frame_times =
                           [k \in 1..(Len(trailer_buf) \div 8) |->
                               ParseTime(Unpack64(SubSeq(trailer_buf, 8 * k - 7, 8 * k)))]]
                   /\ s_pc' = "returned"
                   /\ UNCHANGED s_error
    /\ UNCHANGED file
    /\ UNCHANGED <<findVars, calcVars, trackVars, seeingVars, postVars, poolVars, oxVars>>

----------------------------------------------------------------------------
(* The postcapture script, from the analysis of seeing.ser on.  A seeing      *)
(* value is finite, in tenths of an arc second, or not a number, or infinite. *)

\* seeing_data['seeing'].value < 10.0, in tenths
MaxGoodSeeing == 100

\* seeing_data['N_bad'] < 20
MaxBadFrames == 20

Finite(tenths) == [kind |-> "finite", tenths |-> tenths]
NotANumber == [kind |-> "nan", tenths |-> 0]
Infinite == [kind |-> "inf", tenths |-> 0]

\* np.isfinite(v)
IsFinite(v) == v.kind = "finite"

\* the seeing values an analysis may return
SeeingValues ==
    {NotANumber, Infinite} \cup
    {Finite(t) : t \in {0, 12, MaxGoodSeeing - 1, MaxGoodSeeing, MaxGoodSeeing + 1}}

\* what analyze_dimm_cube does: it raises, and seeing_data is never bound, or
\* it returns a result
Outcomes ==
    {[raised |-> TRUE, seeing |-> NotANumber, N_bad |-> 0, frame_times |-> <<>>]} \cup
    [raised : {FALSE}, seeing : SeeingValues, N_bad : 0..(MaxBadFrames + MaxOver),
     frame_times : {[k \in 1..n |-> k] : n \in 0..MaxStamps}]

\* seeing.txt as the run before left it
OldSeeingTxt == <<[kind |-> "old", tenths |-> 0]>>

\* a row of seeing.csv; written is 0 for a row that was there before the run
CsvRow(written, seeing, z) == [written |-> written, seeing |-> seeing, airmass |-> z]

\* seeing.csv before the run: missing, or with its header and some rows
CsvFiles ==
    {[exists |-> FALSE, header |-> FALSE, rows |-> <<>>],
     [exists |-> TRUE, header |-> TRUE, rows |-> <<>>],
     [exists |-> TRUE, header |-> TRUE, rows |-> <<CsvRow(0, Finite(12), 15)>>]}

\* os.system("mv ~/seeing.ser ~/<to>"): nothing moves when seeing.ser is gone
Mv(at, to) == IF at = "seeing.ser" THEN to ELSE at

PostInit ==
    /\ seeing_data \in Outcomes
    /\ pointing_status = [airmass |-> 15, az |-> 1800, target |-> "star"]
    /\ csv_file \in CsvFiles
    /\ seeing_txt = OldSeeingTxt
    /\ sent = <<>>
    /\ cube_at = "seeing.ser"
    /\ a_pc = "analyze"
    /\ a_error = ""

\* lines 84-88: the analysis; a failure is logged and the cube set aside
Analyze ==
    /\ a_pc = "analyze"
    /\ cube_at' = IF seeing_data.raised THEN Mv(cube_at, "last_bad_seeing.ser") ELSE cube_at
    /\ a_pc' = "judge"
    /\ UNCHANGED <<seeing_data, pointing_status, csv_file, seeing_txt, sent, a_error>>
    /\ UNCHANGED <<findVars, calcVars, trackVars, serVars, seeingVars, poolVars, oxVars>>

\* lines 90-92 and 116-122: is the result worth a log row?
Judge ==
    /\ a_pc = "judge"
    /\ IF seeing_data.raised
       THEN a_pc' = "crashed" /\ a_error' = "NameError" /\ UNCHANGED cube_at
       ELSE IF IsFinite(seeing_data.seeing) /\ seeing_data.seeing.tenths < MaxGoodSeeing
       THEN IF seeing_data.N_bad < MaxBadFrames
            THEN a_pc' = "csv" /\ UNCHANGED <<a_error, cube_at>>
            ELSE /\ cube_at' = Mv(cube_at, "last_bad_seeing.ser")
                 /\ a_pc' = "exit"
                 /\ UNCHANGED a_error
       ELSE /\ cube_at' = Mv(cube_at, "last_bad_seeing.ser")
            /\ a_pc' = "exit"
            /\ UNCHANGED a_error
    /\ UNCHANGED <<seeing_data, pointing_status, csv_file, seeing_txt, sent>>
    /\ UNCHANGED <<findVars, calcVars, trackVars, serVars, seeingVars, poolVars, oxVars>>

\* lines 93-105: the header of a new seeing.csv, and the row of this run
WriteCsv ==
    /\ a_pc = "csv"
    /\ csv_file' = [exists |-> TRUE, header |-> TRUE,
                    rows |-> Append(csv_file.rows,
                                    CsvRow(1, seeing_data.seeing, pointing_status.airmass))]
    /\ a_pc' = "txt"
    /\ UNCHANGED <<seeing_data, pointing_status, seeing_txt, sent, cube_at, a_error>>
    /\ UNCHANGED <<findVars, calcVars, trackVars, serVars, seeingVars, poolVars, oxVars>>

\* lines 107-112: seeing.txt is truncated, the seeing is printed, then the time
\* of the last frame
WriteTxt ==
    /\ a_pc = "txt"
    /\ LET times == seeing_data.frame_times
       IN  IF times = <<>>
           THEN /\ seeing_txt' = <<seeing_data.seeing>>
                /\ a_pc' = "crashed"
                /\ a_error' = "IndexError"
           ELSE /\ seeing_txt' = <<seeing_data.seeing, times[Len(times)]>>
                /\ a_pc' = "send"
                /\ UNCHANGED a_error
    /\ UNCHANGED <<seeing_data, pointing_status, csv_file, sent, cube_at>>
    /\ UNCHANGED <<findVars, calcVars, trackVars, serVars, seeingVars, poolVars, oxVars>>

\* lines 114-115: seeing.txt is copied to the seeing server, the cube is kept
\* as the last good one
Send ==
    /\ a_pc = "send"
    /\ sent' = seeing_txt
    /\ cube_at' = Mv(cube_at, "last_good_seeing.ser")
    /\ a_pc' = "exit"
    /\ UNCHANGED <<seeing_data, pointing_status, csv_file, seeing_txt, a_error>>
    /\ UNCHANGED <<findVars, calcVars, trackVars, serVars, seeingVars, poolVars, oxVars>>

----------------------------------------------------------------------------
(* unwrap_fass_cube.  A frame is one value; the cube holds the frames         *)
(* 1, 2, ..., and unwrapping is a function of the frame.  The pool is the     *)
(* one of multiprocessing: map() cuts the indices into chunks, the workers   *)
(* take the chunks off a queue, and map() returns when every chunk is done.   *)

\* process_fass_image, then warp_polar, then astype(np.float32)
Unwrapped(image) == image + 10

\* Pool.map's chunks of range(n) for a pool of the given size
Chunks(n, size) ==
    LET per == IF n % (4 * size) = 0 THEN n \div (4 * size) ELSE n \div (4 * size) + 1
        RECURSIVE From(_)
        From(k) == IF k >= n THEN <<>>
                   ELSE <<[j \in 1..Min(per, n - k) |-> k + j - 1]>> \o From(k + per)
    IN  From(0)

Resting == [pc |-> "idle", chunk |-> <<>>, image |-> 0]

\* map() returning as soon as every chunk is handed out
AllTaken(queue, w) == queue = <<>>

\* pool.map(...) returns: every chunk is taken and every worker is through
MapDone(queue, w) == queue = <<>> /\ \A k \in DOMAIN w : w[k].pc = "idle"

PoolInit ==
    /\ \E n \in 1..MaxCube : image_cube = [k \in 1..n |-> k]
    /\ nproc \in 1..MaxProc
    /\ input_shm = <<>>
    /\ output_shm = <<>>
    /\ returned_cube = <<>>
    /\ taskqueue = <<>>
    /\ worker = <<>>
    /\ handled = <<>>
    /\ u_pc = "start"

\* lines 565-599: the shared blocks, the copy of the cube, the pool, map()
StartPool ==
    /\ u_pc = "start"
    /\ input_shm' = image_cube
    /\ output_shm' = [k \in DOMAIN image_cube |-> 0]
    /\ taskqueue' = Chunks(Len(image_cube), nproc)
    /\ worker' = [w \in 1..nproc |-> Resting]
    /\ handled' = [k \in DOMAIN image_cube |-> 0]
    /\ u_pc' = "map"
    /\ UNCHANGED <<image_cube, nproc, returned_cube>>
    /\ UNCHANGED <<findVars, calcVars, trackVars, serVars, seeingVars, postVars, oxVars>>

\* a worker takes the next chunk
TakeChunk(w) ==
    /\ u_pc = "map"
    /\ worker[w].pc = "idle"
    /\ taskqueue # <<>>
    /\ worker' = [worker EXCEPT ![w] = [pc |-> "task", chunk |-> Head(taskqueue), image |-> 0]]
    /\ taskqueue' = Tail(taskqueue)
    /\ UNCHANGED <<image_cube, nproc, input_shm, output_shm, returned_cube, handled, u_pc>>
    /\ UNCHANGED <<findVars, calcVars, trackVars, serVars, seeingVars, postVars, oxVars>>

\* lines 501-505: image = input_cube[index, :, :]
ReadSlice(w) ==
    /\ u_pc = "map"
    /\ worker[w].pc = "task"
    /\ worker' = [worker EXCEPT ![w].pc = "image",
                                ![w].image = input_shm[Head(worker[w].chunk) + 1]]
    /\ UNCHANGED <<image_cube, nproc, input_shm, output_shm, returned_cube, taskqueue,
                   handled, u_pc>>
    /\ UNCHANGED <<findVars, calcVars, trackVars, serVars, seeingVars, postVars, oxVars>>

\* lines 507-521: output_cube[index, :, :] = unwrapped
WriteSlice(w) ==
    /\ u_pc = "map"
    /\ worker[w].pc = "image"
    /\ LET index == Head(worker[w].chunk)
           rest == Tail(worker[w].chunk)
       IN  /\ output_shm' = [output_shm EXCEPT ![index + 1] = Unwrapped(worker[w].image)]
           /\ handled' = [handled EXCEPT ![index + 1] = @ + 1]
           /\ worker' = [worker EXCEPT ![w] =
                  [pc |-> IF rest = <<>> THEN "idle" ELSE "task", chunk |-> rest, image |-> 0]]
    /\ UNCHANGED <<image_cube, nproc, input_shm, returned_cube, taskqueue, u_pc>>
    /\ UNCHANGED <<findVars, calcVars, trackVars, serVars, seeingVars, postVars, oxVars>>

\* lines 599-601: map() has returned, the output is copied out of shared memory
CopyOut ==
    /\ u_pc = "map"
    /\ MapDone(taskqueue, worker)
    /\ returned_cube' = output_shm
    /\ u_pc' = "copied"
    /\ UNCHANGED <<image_cube, nproc, input_shm, output_shm, taskqueue, worker, handled>>
    /\ UNCHANGED <<findVars, calcVars, trackVars, serVars, seeingVars, postVars, oxVars>>

\* line 602: the pool and the shared blocks are left, the copy is returned
ReturnCube ==
    /\ u_pc = "copied"
    /\ u_pc' = "returned"
    /\ UNCHANGED <<image_cube, nproc, input_shm, output_shm, returned_cube, taskqueue,
                   worker, handled>>
    /\ UNCHANGED <<findVars, calcVars, trackVars, serVars, seeingVars, postVars, oxVars>>

Take == \E w \in DOMAIN worker : TakeChunk(w)
ReadFrame == \E w \in DOMAIN worker : ReadSlice(w)
WriteFrame == \E w \in DOMAIN worker : WriteSlice(w)

----------------------------------------------------------------------------
(* Specifications.  Each one runs one part of the program and leaves the      *)
(* variables of the others at rest.                                            *)

FindIdle ==
    /\ f_segs = <<>>
    /\ f_brightest = 0
    /\ f_out = [raised |-> FALSE, aps |-> CircularAperture(<<>>, 0)]
    /\ f_pc = "idle"

CalcIdle ==
    /\ c_nap = 0
    /\ c_aps = CircularAperture(<<>>, 0)
    /\ c_data = BlankFrame(0)
    /\ c_out = Pending
    /\ c_pc = "idle"

TrackIdle ==
    /\ napertures = 0
    /\ nframes = 0
    /\ frame_times = <<>>
    /\ ap_size = 0
    /\ apertures = CircularAperture(<<>>, 0)
    /\ i = 0
    /\ nbad = 0
    /\ baselines = <<>>
    /\ positions = <<>>
    /\ fluxes = <<>>
    /\ entry_frame = <<>>
    /\ dimm_meas = Pending
    /\ pc = "idle"
    /\ error = ""
    /\ result = NoResult
    /\ caller = ""
    /\ seeing_func = ""
    /\ airmass = 0

SerIdle ==
    /\ file = <<>>
    /\ fp = 0
    /\ output = NoOutput
    /\ s_pc = "idle"
    /\ s_error = ""

SeeingIdle ==
    /\ q_sigma = 0
    /\ q_config = [baseline |-> 0, aperture_diameter |-> 0, wavelength |-> 0, pixel_scale |-> 0]
    /\ q_direction = ""
    /\ q_out = NoQuantity("")
    /\ q_pc = "idle"

PostIdle ==
    /\ seeing_data = [raised |-> FALSE, seeing |-> NotANumber, N_bad |-> 0, frame_times |-> <<>>]
    /\ pointing_status = [airmass |-> 0, az |-> 0, target |-> ""]
    /\ csv_file = [exists |-> FALSE, header |-> FALSE, rows |-> <<>>]
    /\ seeing_txt = <<>>
    /\ sent = <<>>
    /\ cube_at = ""
    /\ a_pc = "idle"
    /\ a_error = ""

PoolIdle ==
    /\ image_cube = <<>>
    /\ nproc = 0
    /\ input_shm = <<>>
    /\ output_shm = <<>>
    /\ returned_cube = <<>>
    /\ taskqueue = <<>>
    /\ worker = <<>>
    /\ handled = <<>>
    /\ u_pc = "idle"

----------------------------------------------------------------------------
(* checksum and OxWagon.command.  A string is the sequence of its characters. *)

HexDigits == <<"0", "1", "2", "3", "4", "5", "6", "7", "8", "9",
               "A", "B", "C", "D", "E", "F">>

\* int(ch, base=16)
HexVal(ch) == CHOOSE v \in 0..15 : HexDigits[v + 1] = ch

\* "%x" % n, in upper case
RECURSIVE Hex(_)
Hex(n) == IF n < 16 THEN <<HexDigits[n + 1]>> ELSE Hex(n \div 16) \o <<HexDigits[(n % 16) + 1]>>

\* str[1:len(str) - 4]
Payload(str) == SubSeq(str, 2, Len(str) - 4)

\* the loop of lines 50-53 over a command of even length
RECURSIVE ByteSum(_)
ByteSum(command) ==
    IF command = <<>> THEN 0
    ELSE 16 * HexVal(command[1]) + HexVal(command[2]) + ByteSum(SubSeq(command, 3, Len(command)))

\* checksum(str): command[i + 1] is out of range for a command of odd length
Checksum(str) ==
    LET command == Payload(str)
    IN  IF Len(command) % 2 = 1
        THEN [raised |-> "IndexError", value |-> 0]
        ELSE LET neg == 255 - (ByteSum(command) % 256)      \* ~sum & 0xFF
             IN  [raised |-> "", value |-> neg + 1]

\* OxWagon.commands
Commands ==
    [
         RESET |-> <<"2", "C", "0", "0", "8", "0", "0", "0">>,
         OPEN |-> <<"1", "0", "4", "2", "8", "C", "0", "2">>,
         CLOSE |-> <<"1", "4", "2", "1", "8", "0", "0", "0">>,
         MONITOR |-> <<"1", "4", "2", "2", "8", "C", "0", "0">>,
         SCOPE |-> <<"0", "0", "0", "0", "0", "0", "0", "2">>,
         LIGHT |-> <<"0", "0", "0", "0", "0", "0", "0", "1">>,
         OFF |-> <<"0", "0", "0", "0", "0", "0", "0", "0">>,
         CLOSE_SCOPE_ON |-> <<"1", "4", "2", "1", "8", "0", "0", "2">>,
         CLOSE_SCOPE_OFF |-> <<"1", "4", "2", "1", "8", "0", "0", "0">>,
         RESET_SCOPE_ON |-> <<"2", "C", "0", "0", "8", "0", "0", "2">>,
         RESET_SCOPE_OFF |-> <<"2", "C", "0", "0", "8", "0", "0", "0">>]

CmdHeader == <<":", "0", "1", "1", "0", "1", "0", "6", "4", "0", "0", "0", "4", "0", "8">>
PwrDelay == <<"0", "1", "2", "0">>

\* the names command() is called with; STATUS is not one of its commands
CmdNames == DOMAIN Commands \cup {"STATUS"}

\* watch_delay: the class default, and str(delay).zfill(4) for the delays
\* open() is given
WatchDelays == {<<"0", "6", "0", "0">>, <<"3", "6", "0", "0">>, <<"5", "5", "1", "9">>}

\* the bodies of the frames checksum is handed, of up to MaxDigits characters
FrameBodies == SeqsUpTo({"0", "1", "F"}, MaxDigits)

SumInit ==
    /\ \/ /\ k_cmd = ""
          /\ k_delay = <<>>
          /\ \E body \in FrameBodies : k_str = <<":">> \o body \o <<"0", "0", "0", "0">>
       \/ /\ k_cmd \in CmdNames
          /\ k_delay \in WatchDelays
          /\ k_str = <<>>
    /\ k_out = [raised |-> "", value |-> 0]
    /\ k_sent = <<>>
    /\ k_pc = "call"

\* checksum(str), called on its own
CallChecksum ==
    /\ k_pc = "call"
    /\ k_cmd = ""
    /\ k_out' = Checksum(k_str)
    /\ k_pc' = "returned"
    /\ UNCHANGED <<k_str, k_cmd, k_delay, k_sent>>
    /\ UNCHANGED <<findVars, calcVars, trackVars, serVars, seeingVars, postVars, poolVars>>
    /\ UNCHANGED <<wagonVars, doorVars, statusVars>>

\* OxWagon.command(cmd), lines 191-206
Command ==
    /\ k_pc = "call"
    /\ k_cmd # ""
    /\ IF k_cmd \in DOMAIN Commands
       THEN LET cmd == CmdHeader \o Commands[k_cmd] \o k_delay \o PwrDelay
                sum == Checksum(cmd \o <<"0", "0", "0", "0">>)
            IN  /\ k_str' = cmd \o <<"0", "0", "0", "0">>
                /\ k_out' = sum
                /\ k_sent' = IF sum.raised = "" THEN cmd \o Hex(sum.value) \o <<"\n">>
                             ELSE <<>>
       ELSE UNCHANGED <<k_str, k_out, k_sent>>
    /\ k_pc' = "returned"
    /\ UNCHANGED <<k_cmd, k_delay>>
    /\ UNCHANGED <<findVars, calcVars, trackVars, serVars, seeingVars, postVars, poolVars>>
    /\ UNCHANGED <<wagonVars, doorVars, statusVars>>

----------------------------------------------------------------------------
(* ox_wagon_door_status.  Two instances of the script, with the process ids   *)
(* 1 and 2, run against one pid file.  The file is a directory entry          *)
(* (exists), the inode behind it (ino) and the pid written in it (0 when      *)
(* the file is empty).  An instance is a live process until it has exited.    *)

Instances == {1, 2}

\* the pid of a process that is gone, and of a live process that is not an
\* instance of the script
StalePid == 9
ForeignPid == 7

NoFile == [exists |-> FALSE, ino |-> 0, pid |-> 0]

\* os.kill(pid, 0) does not raise
Alive(pid) ==
    \/ pid = ForeignPid
    \/ pid \in Instances /\ d_pc[pid] \notin {"exited", "crashed"}

DoorInit ==
    /\ d_file \in {NoFile, [exists |-> TRUE, ino |-> 1, pid |-> StalePid],
                   [exists |-> TRUE, ino |-> 1, pid |-> ForeignPid]}
    /\ d_fp = [p \in Instances |-> 0]
    /\ d_pc = [p \in Instances |-> "exists"]
    /\ d_lasterror = [p \in Instances |-> "unset"]
    /\ d_pid = [p \in Instances |-> 0]
    /\ d_printed = [p \in Instances |-> ""]
    /\ d_exit = [p \in Instances |-> -1]
    /\ d_did = [p \in Instances |-> {}]
    /\ d_roofs \in [droproof : BOOLEAN, slideroof : BOOLEAN]

\* an exception leaves __init__ and ends the script: __del__ runs on the
\* half-built object and, lasterror being unset, fails before it unlinks
Crash(p, name) ==
    /\ d_pc' = [d_pc EXCEPT ![p] = "crashed"]
    /\ d_printed' = [d_printed EXCEPT ![p] = name]
    /\ d_exit' = [d_exit EXCEPT ![p] = 1]

\* line 29: os.path.exists(pidPath); lines 47-48 when it does not
PathExists(p) ==
    /\ d_pc[p] = "exists"
    /\ IF d_file.exists
       THEN d_pc' = [d_pc EXCEPT ![p] = "read"] /\ UNCHANGED d_lasterror
       ELSE /\ d_pc' = [d_pc EXCEPT ![p] = "guard"]
            /\ d_lasterror' = [d_lasterror EXCEPT ![p] = "False"]
    /\ UNCHANGED <<d_file, d_fp, d_pid, d_printed, d_exit, d_did, d_roofs>>

\* line 33: pid = open(pidPath, 'r').read().strip()
ReadPid(p) ==
    /\ d_pc[p] = "read"
    /\ IF d_file.exists
       THEN /\ d_pid' = [d_pid EXCEPT ![p] = d_file.pid]
            /\ d_pc' = [d_pc EXCEPT ![p] = "kill"]
            /\ UNCHANGED <<d_printed, d_exit>>
       ELSE Crash(p, "FileNotFoundError") /\ UNCHANGED d_pid
    /\ UNCHANGED <<d_file, d_fp, d_lasterror, d_did, d_roofs>>

\* lines 38-46: int(pid) and os.kill(int(pid), 0).  lasterror is assigned in
\* the except branch only.
KillZero(p) ==
    /\ d_pc[p] = "kill"
    /\ IF d_pid[p] = 0
       THEN Crash(p, "ValueError") /\ UNCHANGED <<d_lasterror, d_did>>
       ELSE /\ d_pc' = [d_pc EXCEPT ![p] = "guard"]
            /\ IF Alive(d_pid[p])
               THEN /\ d_did' = [d_did EXCEPT ![p] = @ \cup {"found live"}]
                    /\ UNCHANGED d_lasterror
               ELSE /\ LET pidRunning == 0
                       IN  d_lasterror' =
                               [d_lasterror EXCEPT
                                   ![p] = IF pidRunning = 1 THEN "True" ELSE "False"]
                    /\ UNCHANGED d_did
            /\ UNCHANGED <<d_printed, d_exit>>
    /\ UNCHANGED <<d_file, d_fp, d_pid, d_roofs>>

\* line 50: if not self.lasterror
Guard(p) ==
    /\ d_pc[p] = "guard"
    /\ IF d_lasterror[p] = "unset"
       THEN Crash(p, "AttributeError")
       ELSE /\ d_pc' = [d_pc EXCEPT ![p] = IF d_lasterror[p] = "False" THEN "open"
                                           ELSE "already"]
            /\ UNCHANGED <<d_printed, d_exit>>
    /\ UNCHANGED <<d_file, d_fp, d_lasterror, d_pid, d_did, d_roofs>>

\* line 55: open(pidPath, 'w') empties the file, or makes it
OpenW(p) ==
    /\ d_pc[p] = "open"
    /\ LET ino == IF d_file.exists THEN d_file.ino ELSE d_file.ino + 1
       IN  /\ d_file' = [exists |-> TRUE, ino |-> ino, pid |-> 0]
           /\ d_fp' = [d_fp EXCEPT ![p] = ino]
    /\ d_pc' = [d_pc EXCEPT ![p] = "write"]
    /\ UNCHANGED <<d_lasterror, d_pid, d_printed, d_exit, d_did, d_roofs>>

\* lines 56-57: the pid reaches the file when it is closed, if the file is
\* still the one that was opened
CloseW(p) ==
    /\ d_pc[p] = "write"
    /\ d_file' = IF d_file.exists /\ d_file.ino = d_fp[p]
                 THEN [d_file EXCEPT !.pid = p] ELSE d_file
    /\ d_fp' = [d_fp EXCEPT ![p] = 0]
    /\ d_did' = [d_did EXCEPT ![p] = @ \cup {"wrote"}]
    /\ d_pc' = [d_pc EXCEPT ![p] = "already"]
    /\ UNCHANGED <<d_lasterror, d_pid, d_printed, d_exit, d_roofs>>

\* lines 80-84: alreadyrunning()
AlreadyRunning(p) ==
    /\ d_pc[p] = "already"
    /\ IF d_lasterror[p] = "True"
       THEN /\ d_printed' = [d_printed EXCEPT ![p] = "Already running"]
            /\ d_exit' = [d_exit EXCEPT ![p] = 0]
            /\ d_pc' = [d_pc EXCEPT ![p] = "del"]
            /\ UNCHANGED d_did
       ELSE /\ d_pc' = [d_pc EXCEPT ![p] = "run"]
            /\ d_did' = [d_did EXCEPT ![p] = @ \cup {"ran"}]
            /\ UNCHANGED <<d_printed, d_exit>>
    /\ UNCHANGED <<d_file, d_fp, d_lasterror, d_pid, d_roofs>>

\* lines 84-96: the oxwagon status command has answered
Report(p) ==
    /\ d_pc[p] = "run"
    /\ d_printed' =
           [d_printed EXCEPT ![p] =
               IF d_roofs.droproof /\ d_roofs.slideroof
               THEN "OK: Drop roof and slide roof CLOSED"
               ELSE IF ~d_roofs.droproof /\ ~d_roofs.slideroof
               THEN "CRITICAL: Drop roof and slide roof OPEN"
               ELSE IF ~d_roofs.slideroof THEN "CRITICAL: Slide roof OPEN"
               ELSE "CRITICAL: Drop roof OPEN"]
    /\ d_exit' = [d_exit EXCEPT ![p] = IF d_roofs.droproof /\ d_roofs.slideroof THEN 0 ELSE 2]
    /\ d_pc' = [d_pc EXCEPT ![p] = "del"]
    /\ UNCHANGED <<d_file, d_fp, d_lasterror, d_pid, d_did, d_roofs>>

\* lines 62-64: __del__ at exit; an exception in it is ignored
Del(p) ==
    /\ d_pc[p] = "del"
    /\ IF d_lasterror[p] = "False" /\ d_file.exists
       THEN /\ d_file' = [d_file EXCEPT !.exists = FALSE, !.pid = 0]
            /\ d_did' = [d_did EXCEPT ![p] = @ \cup {IF d_file.pid = p
                                                     THEN "unlinked its own"
                                                     ELSE "unlinked another's"}]
       ELSE UNCHANGED <<d_file, d_did>>
    /\ d_pc' = [d_pc EXCEPT ![p] = "exited"]
    /\ UNCHANGED <<d_fp, d_lasterror, d_pid, d_printed, d_exit, d_roofs>>

DoorRest == <<findVars, calcVars, trackVars, serVars, seeingVars, postVars, poolVars,
              sumVars, wagonVars, statusVars>>

DoorExists == \E p \in Instances : PathExists(p) /\ UNCHANGED DoorRest
DoorRead == \E p \in Instances : ReadPid(p) /\ UNCHANGED DoorRest
DoorKill == \E p \in Instances : KillZero(p) /\ UNCHANGED DoorRest
DoorGuard == \E p \in Instances : Guard(p) /\ UNCHANGED DoorRest
DoorOpen == \E p \in Instances : OpenW(p) /\ UNCHANGED DoorRest
DoorWrite == \E p \in Instances : CloseW(p) /\ UNCHANGED DoorRest
DoorAlready == \E p \in Instances : AlreadyRunning(p) /\ UNCHANGED DoorRest
DoorReport == \E p \in Instances : Report(p) /\ UNCHANGED DoorRest
DoorDel == \E p \in Instances : Del(p) /\ UNCHANGED DoorRest

----------------------------------------------------------------------------
(* OxWagon.__init__.  w_log is what each call of serial.Serial did: it        *)
(* opened the port, or it raised.                                             *)

\* what serial.Serial raises
OpenErrors == {"SerialException", "OSError"}

\* retries > retry_limit
PastLimit(retries, retry_limit) == retries > retry_limit

\* line 146: retries >= retry_limit
Exhausted(retries, retry_limit) == retries >= retry_limit

WagonInit ==
    /\ w_limit \in 0..MaxRetry
    /\ w_retries = 0
    /\ w_log = <<>>
    /\ w_ser = FALSE
    /\ w_error = ""
    /\ w_pc = "loop"

WagonRest == <<findVars, calcVars, trackVars, serVars, seeingVars, postVars, poolVars,
               sumVars, doorVars, statusVars>>

\* lines 132-142: serial.Serial opens the port, break
AttemptOpens ==
    /\ w_pc = "loop"
    /\ w_retries < w_limit
    /\ w_log' = Append(w_log, "opened")
    /\ w_ser' = TRUE
    /\ w_pc' = "wrap"
    /\ UNCHANGED <<w_limit, w_retries, w_error>>
    /\ UNCHANGED WagonRest

\* lines 132-147: serial.Serial raises
AttemptFails ==
    /\ w_pc = "loop"
    /\ w_retries < w_limit
    /\ \E e \in OpenErrors :
         /\ w_log' = Append(w_log, e)
         /\ w_retries' = w_retries + 1
         /\ IF Exhausted(w_retries + 1, w_limit)
            THEN w_pc' = "raised" /\ w_error' = e
            ELSE w_pc' = "loop" /\ UNCHANGED w_error
    /\ UNCHANGED <<w_limit, w_ser>>
    /\ UNCHANGED WagonRest

\* line 132: the loop condition fails
LoopEnds ==
    /\ w_pc = "loop"
    /\ ~(w_retries < w_limit)
    /\ w_pc' = "wrap"
    /\ UNCHANGED <<w_limit, w_retries, w_log, w_ser, w_error>>
    /\ UNCHANGED WagonRest

\* lines 151-153: the text wrapper around self.ser
Wrap ==
    /\ w_pc = "wrap"
    /\ IF w_ser
       THEN w_pc' = "status" /\ UNCHANGED w_error
       ELSE w_pc' = "raised" /\ w_error' = "AttributeError"
    /\ UNCHANGED <<w_limit, w_retries, w_log, w_ser>>
    /\ UNCHANGED WagonRest

\* line 154: self.status(); with no answer within the timeout resp is empty
\* and reg_106e[0] is out of range
InitialStatus ==
    /\ w_pc = "status"
    /\ \E answered \in BOOLEAN :
         IF answered
         THEN w_pc' = "done" /\ UNCHANGED w_error
         ELSE w_pc' = "raised" /\ w_error' = "IndexError"
    /\ UNCHANGED <<w_limit, w_retries, w_log, w_ser>>
    /\ UNCHANGED WagonRest

----------------------------------------------------------------------------
(* The status script of ekos_timdimm and get_current_conditions.  The sun's   *)
(* altitude is in tenths of a degree.                                         *)

\* WX_LIMITS
WxLimits == [humidity |-> 90, wind |-> 45]

\* what parse_saao_io may give: it raises, or it returns a reading
SaaoReadings ==
    [failed : {FALSE}, Valid : BOOLEAN, humidity : {89, 90}, wind : {44, 45},
     humidity_warn : BOOLEAN, wind_warn : BOOLEAN]
    \cup {[failed |-> TRUE, Valid |-> FALSE, humidity |-> 0, wind |-> 0,
           humidity_warn |-> FALSE, wind_warn |-> FALSE]}

\* get_current_conditions(): the checks it returns are those of humidity and wind
GetCurrentConditions(io) ==
    IF io.failed
    THEN [raised |-> TRUE, checks |-> [humidity |-> FALSE, wind |-> FALSE]]
    ELSE [raised |-> FALSE,
          checks |-> IF io.Valid
                     THEN [humidity |-> io.humidity < WxLimits.humidity /\ ~io.humidity_warn,
                           wind |-> io.wind < WxLimits.wind /\ ~io.wind_warn]
                     ELSE [humidity |-> FALSE, wind |-> FALSE]]

\* the altitudes of the sun the script is run at
SunAltitudes == {-180, -61, -60, -59, 0, 1, 300}

\* -6 degrees
CivilTwilight == -60

StatusInit ==
    /\ \E io \in SaaoReadings : t_wx = GetCurrentConditions(io)
    /\ t_sun \in SunAltitudes
    /\ t_stop \in BOOLEAN
    /\ t_port \in BOOLEAN
    /\ t_open_ok = FALSE
    /\ t_sent = <<>>
    /\ t_json = <<>>
    /\ t_error = ""
    /\ t_pc = "conditions"

StatusRest == <<findVars, calcVars, trackVars, serVars, seeingVars, postVars, poolVars,
                sumVars, wagonVars, doorVars>>

\* lines 61-83: safety_checks['salt'] is looked up in the checks returned; an
\* exception, KeyError included, is logged and leaves open_ok False
Conditions ==
    /\ t_pc = "conditions"
    /\ IF t_wx.raised
       THEN t_open_ok' = FALSE /\ t_error' = "Can't get current conditions"
       ELSE IF "salt" \notin DOMAIN t_wx.checks
       THEN t_open_ok' = FALSE /\ t_error' = "Can't get current conditions: 'salt'"
       ELSE t_open_ok' = t_wx.checks["salt"] /\ UNCHANGED t_error
    /\ t_pc' = "twilight"
    /\ UNCHANGED <<t_wx, t_sun, t_stop, t_port, t_sent, t_json>>
    /\ UNCHANGED StatusRest

\* lines 87-96
Twilight ==
    /\ t_pc = "twilight"
    /\ t_open_ok' = IF t_sun > CivilTwilight THEN FALSE ELSE t_open_ok
    /\ t_pc' = "stopfile"
    /\ UNCHANGED <<t_wx, t_sun, t_stop, t_port, t_sent, t_json, t_error>>
    /\ UNCHANGED StatusRest

\* lines 98-102
StopFile ==
    /\ t_pc = "stopfile"
    /\ t_open_ok' = IF t_stop THEN FALSE ELSE t_open_ok
    /\ t_pc' = "enclosure"
    /\ UNCHANGED <<t_wx, t_sun, t_stop, t_port, t_sent, t_json, t_error>>
    /\ UNCHANGED StatusRest

\* lines 104-151: the commands to the enclosure; when OxWagon() raises the
\* failure is logged and nothing is sent
Enclosure ==
    /\ t_pc = "enclosure"
    /\ t_sent' = IF ~t_port THEN <<>>
                 ELSE IF t_open_ok THEN <<"RESET", "OPEN">>
                 ELSE <<"CLOSE">>
    /\ t_pc' = "write"
    /\ UNCHANGED <<t_wx, t_sun, t_stop, t_port, t_open_ok, t_json, t_error>>
    /\ UNCHANGED StatusRest

\* lines 154-158: roof_status.json
WriteRoofStatus ==
    /\ t_pc = "write"
    /\ t_json' = <<[open_ok |-> t_open_ok]>>
    /\ t_pc' = "copy"
    /\ UNCHANGED <<t_wx, t_sun, t_stop, t_port, t_open_ok, t_sent, t_error>>
    /\ UNCHANGED StatusRest

\* lines 160-168
CopyWagonStatus ==
    /\ t_pc = "copy"
    /\ t_pc' = "exit"
    /\ UNCHANGED <<t_wx, t_sun, t_stop, t_port, t_open_ok, t_sent, t_json, t_error>>
    /\ UNCHANGED StatusRest

SumIdle ==
    /\ k_str = <<>>
    /\ k_cmd = ""
    /\ k_delay = <<>>
    /\ k_out = [raised |-> "", value |-> 0]
    /\ k_sent = <<>>
    /\ k_pc = "idle"

WagonIdle ==
    /\ w_limit = 0
    /\ w_retries = 0
    /\ w_log = <<>>
    /\ w_ser = FALSE
    /\ w_error = ""
    /\ w_pc = "idle"

DoorIdle ==
    /\ d_file = [exists |-> FALSE, ino |-> 0, pid |-> 0]
    /\ d_fp = <<>>
    /\ d_pc = <<>>
    /\ d_lasterror = <<>>
    /\ d_pid = <<>>
    /\ d_printed = <<>>
    /\ d_exit = <<>>
    /\ d_did = <<>>
    /\ d_roofs = [droproof |-> FALSE, slideroof |-> FALSE]

StatusIdle ==
    /\ t_wx = [raised |-> FALSE, checks |-> [humidity |-> FALSE, wind |-> FALSE]]
    /\ t_sun = 0
    /\ t_stop = FALSE
    /\ t_port = FALSE
    /\ t_open_ok = FALSE
    /\ t_sent = <<>>
    /\ t_json = <<>>
    /\ t_error = ""
    /\ t_pc = "idle"

OxIdle == SumIdle /\ WagonIdle /\ DoorIdle /\ StatusIdle

\* analyze_dimm_cube
Init == TrackInit /\ FindIdle /\ CalcIdle /\ SerIdle /\ SeeingIdle /\ PostIdle /\ PoolIdle /\ OxIdle
Next == Setup \/ TrackFrame \/ TrackBlankFrame \/ Finish
Spec == Init /\ [][Next]_vars

\* find_apertures
InitFind == FindInit /\ CalcIdle /\ TrackIdle /\ SerIdle /\ SeeingIdle /\ PostIdle /\ PoolIdle /\ OxIdle
NextFind == FindCall
SpecFind == InitFind /\ [][NextFind]_vars

\* dimm_calc and hdimm_calc
InitCalc == CalcInit /\ FindIdle /\ TrackIdle /\ SerIdle /\ SeeingIdle /\ PostIdle /\ PoolIdle /\ OxIdle
NextCalc == CallDimmCalc \/ CallHdimmCalc
SpecCalc == InitCalc /\ [][NextCalc]_vars

\* load_ser_file
InitSer == SerInit /\ FindIdle /\ CalcIdle /\ TrackIdle /\ SeeingIdle /\ PostIdle /\ PoolIdle /\ OxIdle
NextSer == ReadHeader \/ ReadData \/ ReadTrailer
SpecSer == InitSer /\ [][NextSer]_vars

\* seeing
InitSeeing == SeeingInit /\ FindIdle /\ CalcIdle /\ TrackIdle /\ SerIdle /\ PostIdle /\ PoolIdle /\ OxIdle
NextSeeing == CallSeeing
SpecSeeing == InitSeeing /\ [][NextSeeing]_vars

\* the postcapture script
InitPost == PostInit /\ FindIdle /\ CalcIdle /\ TrackIdle /\ SerIdle /\ SeeingIdle /\ PoolIdle /\ OxIdle
NextPost == Analyze \/ Judge \/ WriteCsv \/ WriteTxt \/ Send
SpecPost == InitPost /\ [][NextPost]_vars

\* unwrap_fass_cube
InitPool == PoolInit /\ FindIdle /\ CalcIdle /\ TrackIdle /\ SerIdle /\ SeeingIdle /\ PostIdle /\ OxIdle
NextPool == StartPool \/ Take \/ ReadFrame \/ WriteFrame \/ CopyOut \/ ReturnCube
SpecPool == InitPool /\ [][NextPool]_vars

\* checksum and OxWagon.command
InitSum == SumInit /\ WagonIdle /\ DoorIdle /\ StatusIdle /\ FindIdle /\ CalcIdle /\ TrackIdle
               /\ SerIdle /\ SeeingIdle /\ PostIdle /\ PoolIdle
NextSum == CallChecksum \/ Command
SpecSum == InitSum /\ [][NextSum]_vars

\* ox_wagon_door_status
InitDoor == DoorInit /\ SumIdle /\ WagonIdle /\ StatusIdle /\ FindIdle /\ CalcIdle /\ TrackIdle
                /\ SerIdle /\ SeeingIdle /\ PostIdle /\ PoolIdle
NextDoor == DoorExists \/ DoorRead \/ DoorKill \/ DoorGuard \/ DoorOpen \/ DoorWrite
                \/ DoorAlready \/ DoorReport \/ DoorDel
SpecDoor == InitDoor /\ [][NextDoor]_vars

\* OxWagon.__init__
InitWagon == WagonInit /\ SumIdle /\ DoorIdle /\ StatusIdle /\ FindIdle /\ CalcIdle /\ TrackIdle
                 /\ SerIdle /\ SeeingIdle /\ PostIdle /\ PoolIdle
NextWagon == AttemptOpens \/ AttemptFails \/ LoopEnds \/ Wrap \/ InitialStatus
SpecWagon == InitWagon /\ [][NextWagon]_vars

\* the status script
InitStatus == StatusInit /\ SumIdle /\ WagonIdle /\ DoorIdle /\ FindIdle /\ CalcIdle /\ TrackIdle
                  /\ SerIdle /\ SeeingIdle /\ PostIdle /\ PoolIdle
NextStatus == Conditions \/ Twilight \/ StopFile \/ Enclosure \/ WriteRoofStatus
                  \/ CopyWagonStatus
SpecStatus == InitStatus /\ [][NextStatus]_vars

----------------------------------------------------------------------------
(* The claims *)

\* ascending x-coordinate
SortedX(pos) == \A k \in 1..(Len(pos) - 1) : pos[k][1] <= pos[k + 1][1]

\* C1: the tracking loop ends with the bad-frame-limit error exactly when the
\* number of frames that failed both the first validation and the re-detection
\* exceeds 100: the error is raised at the frame that brings the count to 101,
\* that frame is the last one processed and no result is returned; a run that
\* reaches the end of the cube has at most 100 bad frames and reports their
\* number as N_bad.
C1_BadFrameBudget ==
    /\ pc \in {"loop", "done"} => nbad <= BadLimit /\ nbad = i - Len(entry_frame)
    /\ (pc = "raised" /\ error = BadFrameLimit) <=> nbad > BadLimit
    /\ pc = "raised" /\ error = BadFrameLimit =>
           /\ nbad = BadLimit + 1
           /\ dimm_meas.kind = "None"
           /\ i < nframes
           /\ Len(entry_frame) + nbad = i + 1
           /\ result = NoResult
           /\ ~ ENABLED Next
    /\ pc = "done" => result.returned /\ result.N_bad = nbad /\ i = nframes

\* C1 witness: the run is aborted at the 101st bad frame, with a frame of the
\* cube left unprocessed
C1_Witness ==
    /\ pc = "raised"
    /\ error = BadFrameLimit
    /\ nbad = BadLimit + 1
    /\ i + 1 < nframes

C3_NoFrameException == pc = "raised" => error \in {NoSegments, BadFrameLimit}

\* C4 as claimed: find_apertures raises when fewer segments than asked for
\* are detected
C4_FewerThanAskedRaises ==
    f_pc = "returned" /\ Len(f_segs) < f_brightest => f_out.raised

\* C5: when all n centroids are finite, all n fluxes positive and all
\* centroids at least the aperture radius apart, the first validation accepts
\* the frame, find_apertures is not called and the measured centroids become
\* the apertures; when a flux is zero or negative, find_apertures is called
C5_FirstPass ==
    c_pc = "returned" /\ Len(c_data.first) = c_nap =>
        LET pos == [k \in 1..c_nap |-> c_data.first[k].centroid]
            flux == [k \in 1..c_nap |-> c_data.first[k].sum]
            apart == \A a, b \in 1..c_nap :
                         a < b => Dist(pos[a], pos[b]) >= 4 * c_aps.r * c_aps.r
        IN  /\ (\A k \in 1..c_nap : pos[k] # NaN /\ flux[k] > 0) /\ apart =>
                   /\ c_out.kind = "meas"
                   /\ ~c_out.redetected
                   /\ c_out.aps.positions = pos
            /\ (\E k \in 1..c_nap : flux[k] <= 0) => c_out.redetected

\* C5 witness: a frame that is valid but for one flux of exactly zero
C5_Witness ==
    /\ c_pc = "returned"
    /\ c_nap = 3
    /\ Len(c_data.first) = 3
    /\ c_data.first[1].centroid = <<0, 0>>
    /\ c_data.first[2].centroid = <<30, 45>>
    /\ c_data.first[3].centroid = <<45, 0>>
    /\ c_data.first[1].sum = 0 /\ c_data.first[2].sum = 1 /\ c_data.first[3].sum = 1
    /\ c_out.redetected

\* the pairs of apertures of hdimm_calc
Pairs == {<<1, 2>>, <<1, 3>>, <<2, 3>>}

\* C6 as claimed: in 3-aperture mode a pair of centroids at 0.5 x radius or
\* closer forces the re-detection
C6_AtMostHalfRadiusRedetects ==
    c_pc = "returned" /\ c_nap = 3 /\ Len(c_data.first) = 3 =>
        LET pos == [k \in 1..3 |-> c_data.first[k].centroid]
        IN  (\E p \in Pairs : /\ pos[p[1]] # NaN /\ pos[p[2]] # NaN
                              /\ Dist(pos[p[1]], pos[p[2]]) <= c_aps.r * c_aps.r)
                => c_out.redetected

\* C6 as amended: in 3-aperture mode a pair of centroids closer than
\* 0.5 x radius forces the re-detection, and a frame with finite centroids,
\* positive fluxes and every pair at 0.5 x radius or further (exactly
\* 0.5 x radius included) passes the first validation
C6_BelowHalfRadiusRedetects ==
    c_pc = "returned" /\ c_nap = 3 /\ Len(c_data.first) = 3 =>
        LET pos == [k \in 1..3 |-> c_data.first[k].centroid]
            flux == [k \in 1..3 |-> c_data.first[k].sum]
            finite == \A k \in 1..3 : pos[k] # NaN
        IN  /\ (finite /\ \E p \in Pairs : Dist(pos[p[1]], pos[p[2]]) < c_aps.r * c_aps.r)
                   => c_out.redetected
            /\ (/\ finite
                /\ \A k \in 1..3 : flux[k] > 0
                /\ \A p \in Pairs : Dist(pos[p[1]], pos[p[2]]) >= c_aps.r * c_aps.r)
                   => ~c_out.redetected /\ c_out.kind = "meas"

\* C6 witness: a frame accepted with two centroids exactly 0.5 x radius apart
C6_Witness ==
    /\ c_pc = "returned"
    /\ c_nap = 3
    /\ Len(c_data.first) = 3
    /\ \A k \in 1..3 : c_data.first[k].centroid # NaN
    /\ \E p \in Pairs :
           Dist(c_data.first[p[1]].centroid, c_data.first[p[2]].centroid)
               = c_aps.r * c_aps.r
    /\ c_out.kind = "meas"
    /\ ~c_out.redetected

\* C7 as claimed: the apertures of the tracking loop are in ascending x order
\* at every frame
C7_AlwaysSortedByX == SortedX(apertures.positions)

\* C7 as amended: the apertures are in ascending x order after the reference
\* detection and after a re-detected set is adopted, and a bad frame leaves
\* them as they were; the centroid update of a frame that passes the first
\* validation keeps the order of the apertures and does not sort them
C7_SortedWhenDetected ==
    [][/\ pc = "start" /\ pc' = "loop" => SortedX(apertures'.positions)
       /\ pc = "loop" /\ pc' # "done" =>
              /\ dimm_meas'.kind = "meas" /\ dimm_meas'.redetected =>
                     SortedX(apertures'.positions)
              /\ dimm_meas'.kind = "meas" =>
                     /\ apertures' = dimm_meas'.aps
                     /\ Len(apertures'.positions) = napertures
              /\ dimm_meas'.kind # "meas" => apertures' = apertures]_vars

\* C7 witness: a re-detected set is adopted after a bad frame
C7_Witness ==
    /\ pc = "loop"
    /\ nbad > 0
    /\ dimm_meas.kind = "meas"
    /\ dimm_meas.redetected
    /\ apertures = dimm_meas.aps
    /\ Len(apertures.positions) = 3

\* C8: the apertures find_apertures returns are in ascending order of
\* x-centroid, whatever the order the segments were discovered in
C8_ReturnedSortedByX ==
    f_pc = "returned" /\ ~f_out.raised => SortedX(f_out.aps.positions)

\* C8 witness: three apertures returned for segments discovered out of x order
C8_Witness ==
    /\ f_pc = "returned"
    /\ Len(f_out.aps.positions) = 3
    /\ ~SortedX([k \in DOMAIN f_segs |-> SegPos(f_segs[k])])
    /\ f_segs[1].xcentroid > f_segs[Len(f_segs)].xcentroid

\* C9 as claimed: no cube is produced from a file whose first 14 bytes are
\* not the expected tag
C9_TagChecked ==
    s_pc \in {"header", "data", "returned"} => Read(file, 0, 14) = FileID

\* C10 as claimed: nplanes is 1 for a colour code below 100 and 3 from 100 on,
\* bytes_per_pixel is nplanes times 1 (depth <= 8) or 2, and the pixel read
\* consumes nframe x width x height x bytes_per_pixel bytes
C10_PlanesFollowColourCode ==
    s_pc \in {"header", "data", "returned"} =>
        LET planes == IF output.color_id < 100 THEN 1 ELSE 3
            bytes == planes * (IF output.pix_depth_per_plane <= 8 THEN 1 ELSE 2)
        IN  /\ output.color_id = Unpack(Read(file, 18, 4))
            /\ output.nplanes = planes
            /\ output.bytes_per_pixel = bytes
            /\ s_pc = "data" =>
                   fp - 178 = output.nframe * output.im_width * output.im_height * bytes

\* the little-endian 32-bit header field written at byte offset at
Written(f, at) == Unpack(SubSeq(f, at + 1, at + 4))

\* the bytes that follow the pixel payload the loader has read
AfterPayload == Len(file) - fp

\* C11 as claimed: once the header and the whole pixel payload are read, the
\* loader returns a cube whatever follows the payload
C11_AnyTrailerLoads ==
    [][s_pc = "data" => s_pc' = "returned"]_vars

\* C11 as amended: once the header and the whole pixel payload are read, the
\* loader returns a cube, with one time stamp per complete 8-byte entry (none
\* when nothing follows the payload, fewer than the frame count when fewer
\* follow), exactly when the bytes left are a whole number of 8-byte entries;
\* a trailing partial entry makes it raise ValueError
C11_WholeTrailerLoads ==
    [][s_pc = "data" =>
           IF AfterPayload % 8 = 0
           THEN /\ s_pc' = "returned"
                /\ Len(output'.frame_times) = AfterPayload \div 8
                /\ output'.data = output.data
           ELSE s_pc' = "raised" /\ s_error' = "ValueError"]_vars

\* C11 witness: a cube of two frames returned with one time stamp
C11_Witness ==
    /\ s_pc = "returned"
    /\ output.nframe = 2
    /\ Len(output.data) = 2
    /\ Len(output.frame_times) = 1

\* C12 as claimed: a 16-bit sample is decoded low byte first when the header's
\* little-endian flag is 1 and high byte first when it is 0
C12_FlagSelectsByteOrder ==
    s_pc \in {"data", "returned"} /\ output.bytes_per_pixel = 2 =>
        \A k \in DOMAIN output.data :
            LET b1 == file[178 + 2 * k - 1]
                b2 == file[178 + 2 * k]
            IN  output.data[k] = IF output.littleendian = 1 THEN b1 + 256 * b2
                                 ELSE 256 * b1 + b2

\* the planes and the bytes of a sample the header of a written cube announces
WrittenPlanes(f) == IF Written(f, 18) < 100 THEN 1 ELSE 3
WrittenSampleSize(f) == IF Written(f, 34) <= 8 THEN 1 ELSE 2
WrittenSamples(f) ==
    Written(f, 38) * Written(f, 26) * Written(f, 30) * WrittenPlanes(f)

\* the k-th sample of a written cube
WrittenSample(f, k) ==
    IF WrittenSampleSize(f) = 1 THEN f[178 + k]
    ELSE IF Written(f, 22) = 1 THEN f[178 + 2 * k - 1] + 256 * f[178 + 2 * k]
    ELSE 256 * f[178 + 2 * k - 1] + f[178 + 2 * k]

\* a file written in the layout of the format: the tag, the header, the
\* samples, one time stamp per frame
WrittenCube(f) ==
    /\ Len(f) >= 178
    /\ SubSeq(f, 1, 14) = FileID
    /\ Len(f) = 178 + WrittenSamples(f) * WrittenSampleSize(f) + 8 * Written(f, 38)

\* C13 as claimed: a cube written in the layout of the format is loaded, with
\* the samples that were written, in order, and the time stamps that were
\* written, one per frame, in order
C13_RoundTrip ==
    WrittenCube(file) =>
        /\ s_pc # "raised"
        /\ s_pc \in {"data", "returned"} =>
               /\ Len(output.data) = WrittenSamples(file)
               /\ \A k \in DOMAIN output.data : output.data[k] = WrittenSample(file, k)
        /\ s_pc = "returned" =>
               LET first == 178 + WrittenSamples(file) * WrittenSampleSize(file)
               IN  /\ Len(output.frame_times) = Written(file, 38)
                   /\ \A k \in DOMAIN output.frame_times :
                          output.frame_times[k] =
                              ParseTime(SubSeq(file, first + 8 * k - 7, first + 8 * k))

\* C14: the header fields are read at the fixed offsets 0, 14, 18, ..., 170,
\* the pixel payload is the frame_count x width x height x bytes_per_pixel
\* bytes from offset 178 on, and the trailer is every byte after the payload
\* and none before it
C14_FixedLayout ==
    LET want == output.nframe * output.im_width * output.im_height * output.bytes_per_pixel
        size == IF output.bytes_per_pixel = 1 THEN 1 ELSE 2
    IN  /\ s_pc \in {"header", "data", "returned"} =>
               /\ output.file_id = Strip(SubSeq(file, 1, 14))
               /\ output.lu_id = Written(file, 14)
               /\ output.color_id = Written(file, 18)
               /\ output.littleendian = Written(file, 22)
               /\ output.im_width = Written(file, 26)
               /\ output.im_height = Written(file, 30)
               /\ output.pix_depth_per_plane = Written(file, 34)
               /\ output.nframe = Written(file, 38)
               /\ output.observer = Strip(SubSeq(file, 43, 82))
               /\ output.instrument = Strip(SubSeq(file, 83, 122))
               /\ output.telescope = Strip(SubSeq(file, 123, 162))
               /\ output.dateobs = ParseTime(SubSeq(file, 163, 170))
               /\ output.dateobs_utc = ParseTime(SubSeq(file, 171, 178))
        /\ s_pc = "header" => fp = 178
        /\ s_pc \in {"data", "returned"} =>
               /\ Len(file) >= 178 + want
               /\ output.data = FromBuffer(SubSeq(file, 179, 178 + want), size)
        /\ s_pc = "data" => fp = 178 + want
        /\ s_pc = "returned" =>
               /\ fp = Len(file)
               /\ 8 * Len(output.frame_times) = Len(file) - 178 - want
               /\ \A k \in DOMAIN output.frame_times :
                      output.frame_times[k] =
                          ParseTime(SubSeq(file, 178 + want + 8 * k - 7, 178 + want + 8 * k))

\* C14 witness: a cube returned with pixel data and a time stamp
C14_Witness ==
    /\ s_pc = "returned"
    /\ output.data # <<>>
    /\ output.frame_times # <<>>
    /\ output.pix_depth_per_plane = 16

\* the powers of the closed form 0.98 * (D / lambda) ** 0.2 *
\* ((sigma * pixel_scale) ** 2 / k) ** 0.6 / airmass ** 0.6, in tenths
ClosedForm ==
    [x \in Symbols |->
        CASE x = "0.98" -> 10
          [] x = "aperture_diameter/wavelength" -> 2
          [] x = "sigma" -> 12
          [] x = "pixel_scale" -> 12
          [] x = "k" -> -6
          [] x = "airmass" -> -6]

\* C15: every per-baseline seeing of a returned result is the closed form
\* 0.98 (D/lambda)^0.2 ((sigma pixel_scale)^2 / k)^0.6 in arc seconds divided
\* by airmass^0.6, with sigma the clipped scatter (10 sigma, 10 iterations) of
\* that baseline's series, k the longitudinal coefficient
\* 0.364 (1 - 0.532 b^(-1/3) - 0.024 b^(-7/3)) and b the ratio of the baseline
\* to the aperture diameter D
C15_TokovininSeeing ==
    pc = "done" =>
        \A b \in DOMAIN result.raw_seeing :
            LET v == result.raw_seeing[b]
            IN  /\ v.raised = ""
                /\ v.unit = "arcsec"
                /\ v.exps = ClosedForm
                /\ v.sigma = [clipped_std |-> result.baseline_lengths[b],
                              sigma |-> 10, maxiters |-> 10]
                /\ v.k.factor = 364 /\ v.k.c1 = -532 /\ v.k.c2 = -24
                /\ v.k.b.aperture_diameter = v.aperture_diameter
                /\ v.airmass = <<airmass>>

\* C15 witness: a 3-aperture result with three seeing values from series of
\* two measured frames
C15_Witness ==
    /\ pc = "done"
    /\ napertures = 3
    /\ Len(result.raw_seeing) = 3
    /\ Len(result.baseline_lengths[1]) = 2

\* C16: seeing() raises ValueError and returns no value exactly when the
\* direction is neither 'longitudinal' nor 'transverse', whatever sigma and
\* the configuration are
C16_UnknownDirectionRaises ==
    q_pc = "returned" =>
        /\ q_direction \notin {"longitudinal", "transverse"} =>
               q_out.raised = "ValueError" /\ q_out.unit = ""
        /\ q_direction \in {"longitudinal", "transverse"} =>
               q_out.raised = "" /\ q_out.unit = "arcsec" /\ q_out.sigma = q_sigma

\* C16 witness: the name of a supported direction, capitalised, is refused
C16_Witness ==
    /\ q_pc = "returned"
    /\ q_direction = "Longitudinal"
    /\ q_sigma > 0
    /\ q_out.raised = "ValueError"

\* what ends the postcapture script
Ended == a_pc \in {"exit", "crashed"}

\* the row of this run is in seeing.csv
RowAppended == \E k \in DOMAIN csv_file.rows : csv_file.rows[k].written = 1

\* the result is one to log
GoodSeeing ==
    /\ IsFinite(seeing_data.seeing)
    /\ seeing_data.seeing.tenths < 100
    /\ seeing_data.N_bad < 20

\* C17 as claimed: after an analysis that returned a result, a row is appended
\* and seeing.txt rewritten only for a finite seeing below 10 arc seconds with
\* fewer than 20 bad frames; for a seeing that is not finite or not below 10
\* arc seconds no row is appended and the cube goes to last_bad_seeing.ser;
\* and in every case the cube ends in last_good_seeing.ser or in
\* last_bad_seeing.ser
C17_CubeArchivedOnce ==
    Ended /\ ~seeing_data.raised =>
        /\ RowAppended => GoodSeeing
        /\ seeing_txt[1].kind # "old" => GoodSeeing
        /\ ~(IsFinite(seeing_data.seeing) /\ seeing_data.seeing.tenths < 100) =>
               ~RowAppended /\ cube_at = "last_bad_seeing.ser"
        /\ cube_at \in {"last_good_seeing.ser", "last_bad_seeing.ser"}

\* the parameter set a seeing function converts with
HdimmSet == [baseline |-> 1430, aperture_diameter |-> 762]
DimmSet == [baseline |-> 2000, aperture_diameter |-> 500]

\* C18 as claimed: every run with three apertures converts with the HDIMM set
\* and every run with two apertures with the DIMM set
C18_AlwaysPaired ==
    pc = "done" =>
        \A b \in DOMAIN result.raw_seeing :
            result.raw_seeing[b].k.b = IF napertures = 3 THEN HdimmSet ELSE DimmSet

\* C18 as amended: the callers of the repository pair the aperture count with
\* its parameter set: timdimm_analyze and the postcapture script run two
\* apertures with the DIMM set, hdimm_analyze three with the HDIMM set; the
\* set a run converts with is the one of the seeing function handed in
C18_CallersPair ==
    /\ caller \in {"timdimm_analyze", "postcapture"} =>
           napertures = 2 /\ seeing_func = "timdimm_seeing"
    /\ caller = "hdimm_analyze" => napertures = 3 /\ seeing_func = "seeing"
    /\ pc = "done" =>
           \A b \in DOMAIN result.raw_seeing :
               /\ seeing_func = "seeing" => result.raw_seeing[b].k.b = HdimmSet
               /\ seeing_func = "timdimm_seeing" => result.raw_seeing[b].k.b = DimmSet
               /\ caller # "direct" =>
                      result.raw_seeing[b].k.b = IF napertures = 3 THEN HdimmSet ELSE DimmSet

\* C18 witness: hdimm_analyze has returned three seeing values
C18_Witness ==
    /\ pc = "done"
    /\ caller = "hdimm_analyze"
    /\ Len(result.raw_seeing) = 3

\* C19 as claimed: a returned result holds one seeing value per pair of
\* apertures, 1 for two apertures and 3 for three, and their mean, however
\* many frames were bad
C19_OneValuePerBaseline ==
    pc = "done" =>
        /\ Len(result.raw_seeing) = IF napertures = 2 THEN 1 ELSE 3
        /\ result.seeing.mean_of = result.raw_seeing
        /\ ~result.seeing.nan

\* what C20 asks of a state
PoolState ==
    /\ u_pc \in {"map", "copied", "returned"} =>
           /\ input_shm = image_cube
           /\ \A k \in DOMAIN handled : handled[k] <= 1
    /\ u_pc \in {"copied", "returned"} =>
           /\ \A k \in DOMAIN handled : handled[k] = 1
           /\ \A w \in DOMAIN worker : worker[w].pc = "idle"
           /\ returned_cube = [k \in DOMAIN image_cube |-> Unwrapped(image_cube[k])]

\* what C20 asks of a step
PoolStep ==
    /\ image_cube' = image_cube
    /\ u_pc = "map" => input_shm' = input_shm
    /\ u_pc = "map" /\ u_pc' = "map" =>
           \A k \in DOMAIN output_shm :
               output_shm'[k] # output_shm[k] =>
                   \E w \in DOMAIN worker :
                       /\ worker[w].pc = "image"
                       /\ Head(worker[w].chunk) = k - 1
                       /\ handled'[k] = handled[k] + 1
    /\ u_pc \in {"copied", "returned"} => returned_cube' = returned_cube

\* C20: under every interleaving of the workers the shared input is never
\* written, the worker handling index i writes output frame i only, every
\* index is handled exactly once, every write is done before the output is
\* copied into the cube that is returned, and the caller's cube is untouched
C20_DisjointWrites == [](PoolState) /\ [][PoolStep]_vars

\* C20 witness: a cube of three frames or more returned by a pool of two
C20_Witness ==
    /\ u_pc = "returned"
    /\ nproc = 2
    /\ Len(image_cube) >= 3
    /\ returned_cube = [k \in DOMAIN image_cube |-> Unwrapped(image_cube[k])]

\* the bytes of a frame between the leading ':' and its last 4 characters
FrameBytes == ByteSum(Payload(k_str))

\* C21 as claimed: the checksum of a frame is in 0..255 and the sum of the
\* frame's bytes plus the checksum is 0 modulo 256, so that command() appends
\* a checksum of at most two hex digits
C21_ChecksumIsByte ==
    k_pc = "returned" /\ k_out.raised = "" /\ k_str # <<>> =>
        /\ k_out.value \in 0..255
        /\ (FrameBytes + k_out.value) % 256 = 0
        /\ k_cmd # "" => Len(k_sent) <= Len(k_str) - 4 + 2 + 1

\* an instance has ended
Over(p) == d_pc[p] \in {"exited", "crashed"}

\* C22 as claimed: an instance that found the pid file naming a live process
\* prints 'Already running', exits with status 0, and neither writes the pid
\* file, nor runs the status command, nor unlinks the pid file
C22_SecondInstanceBacksOff ==
    \A p \in Instances :
        Over(p) /\ "found live" \in d_did[p] =>
            /\ d_printed[p] = "Already running"
            /\ d_exit[p] = 0
            /\ d_did[p] = {"found live"}

\* C30 as claimed: two instances never run the status command at the same
\* time, and an instance unlinks the pid file only when the file holds its pid
C30_MutualExclusion ==
    /\ ~(d_pc = [p \in Instances |-> "run"])
    /\ \A p \in Instances :
           "unlinked another's" \notin d_did[p]

\* the attempts that failed
Failures == {k \in DOMAIN w_log : w_log[k] \in OpenErrors}

\* the initial status query has been reached
StatusReached == w_pc \in {"status", "done"} \/ (w_pc = "raised" /\ w_error = "IndexError")

\* C29: for retry_limit >= 1 the constructor calls serial.Serial at most
\* retry_limit times, makes no call after the one that opened the port,
\* re-raises the error of the last call exactly when retry_limit calls in a
\* row have failed, and reaches status() only with the port open
C29_BoundedRetries ==
    w_limit >= 1 =>
        /\ Len(w_log) <= w_limit
        /\ w_retries = Cardinality(Failures)
        /\ \A k \in DOMAIN w_log : w_log[k] = "opened" => k = Len(w_log) /\ w_pc # "loop"
        /\ (w_pc = "raised" /\ w_error \in OpenErrors) <=>
               (Len(w_log) = w_limit /\ Failures = DOMAIN w_log)
        /\ w_pc = "raised" /\ w_error \in OpenErrors => w_error = w_log[Len(w_log)]
        /\ StatusReached => w_ser /\ w_log[Len(w_log)] = "opened"
        /\ w_error # "AttributeError"

\* C29 witness: the port opened at the third attempt of three and the status
\* was read
C29_Witness ==
    /\ w_limit = 3
    /\ w_log = <<"SerialException", "OSError", "opened">>
    /\ w_pc = "done"

\* get_current_conditions reported a passing SALT safety check
SaltPassed == ~t_wx.raised /\ "salt" \in DOMAIN t_wx.checks /\ t_wx.checks["salt"]

\* a command was sent to the enclosure
Sent(cmd) == \E k \in DOMAIN t_sent : t_sent[k] = cmd

\* C23 as claimed: a run with a passing SALT check, the sun at or below -6
\* degrees and no STOP file ends with open_ok true, RESET then OPEN sent and
\* open_ok = true in roof_status.json; every other run sends CLOSE and does
\* not send OPEN
C23_OpensWhenSafe ==
    t_pc = "exit" =>
        IF SaltPassed /\ t_sun <= CivilTwilight /\ ~t_stop
        THEN t_open_ok /\ t_sent = <<"RESET", "OPEN">> /\ t_json[1].open_ok
        ELSE Sent("CLOSE") /\ ~Sent("OPEN")

\* C24 as claimed: a measurement returned after re-detection passes the first
\* validation on the fresh apertures: centroids finite, exactly N apertures,
\* every flux strictly positive and, with 3 apertures, every pairwise distance
\* above half the radius
C24_RevalidatedLikeFirstPass ==
    c_pc = "returned" /\ c_out.kind = "meas" /\ c_out.redetected =>
        LET st == ApertureStats(c_data, 2)
        IN  /\ AllFinite(Centroid(st))
            /\ Len(st) = c_nap
            /\ AllPositive(Sum(st))
            /\ c_nap = 3 =>
                   \A k \in 1..3 : ~OverlapInclusive(Bases(Centroid(st))[k], c_aps.r)

\* a frame has just been processed by this step
FrameStep == pc = "loop" /\ i < nframes /\ (i' # i \/ pc' # pc)

\* C25: a frame for which the tracker returned nothing (first validation and
\* re-detection both failed) leaves the apertures as they were, adds exactly
\* one to the bad-frame counter and nothing to the series, and the loop goes
\* on with the next frame unless the budget is spent; no other step changes
\* the counter
C25_BadFrameKeepsApertures ==
    [][/\ nbad' # nbad => FrameStep /\ dimm_meas'.kind = "None"
       /\ FrameStep /\ dimm_meas'.kind = "None" =>
              /\ dimm_meas'.redetected
              /\ nbad' = nbad + 1
              /\ apertures' = apertures
              /\ baselines' = baselines /\ positions' = positions /\ fluxes' = fluxes
              /\ (pc' = "loop" /\ i' = i + 1) \/ (pc' = "raised" /\ nbad' > BadLimit)
      ]_vars

\* C25 witness: a measured frame, then a bad one, and the loop goes on with
\* the apertures of the measured frame
C25_Witness ==
    /\ pc = "loop"
    /\ i = 2
    /\ nbad = 1
    /\ entry_frame = <<0>>
    /\ dimm_meas.kind = "None"
    /\ apertures.positions # <<>>

\* the segments with a higher peak than segment k
Higher(segs, k) == {j \in DOMAIN segs : segs[j].max_value > segs[k].max_value}

\* the detected segments whose position is among those returned
Kept(segs, out) ==
    {k \in DOMAIN segs : \E j \in DOMAIN out.aps.positions : out.aps.positions[j] = SegPos(segs[k])}

\* C26 as claimed: with at least N segments the N returned are the same
\* whatever the order the segments were discovered in
C26_OrderIndependent ==
    f_pc = "returned" /\ Len(f_segs) >= f_brightest =>
        f_out = FindApertures(Reverse(f_segs), f_brightest, DefaultApSize(f_brightest))

\* C26 as amended: with at least N segments exactly N are kept, a kept segment
\* has at most N-1 segments of higher peak, every segment of higher peak than a
\* kept one is kept, and the kept set does not depend on the discovery order as
\* long as no segment left out has the peak of a kept one
C26_TopPeaksKept ==
    f_pc = "returned" /\ Len(f_segs) >= f_brightest =>
        LET kept == Kept(f_segs, f_out)
        IN  /\ ~f_out.raised
            /\ Cardinality(kept) = f_brightest
            /\ Len(f_out.aps.positions) = f_brightest
            /\ \A k \in kept : Cardinality(Higher(f_segs, k)) <= f_brightest - 1
            /\ \A k \in kept : Higher(f_segs, k) \subseteq kept
            /\ (\A k \in kept, j \in DOMAIN f_segs \ kept :
                    f_segs[j].max_value # f_segs[k].max_value) =>
                   f_out = FindApertures(Reverse(f_segs), f_brightest,
                                         DefaultApSize(f_brightest))

\* C26 witness: four segments, the two bright ones found last are kept
C26_Witness ==
    /\ f_pc = "returned"
    /\ f_brightest = 2
    /\ Len(f_segs) = 4
    /\ f_segs[1].max_value = 2 /\ f_segs[2].max_value = 1
    /\ f_segs[3].max_value = 1 /\ f_segs[4].max_value = 2
    /\ Kept(f_segs, f_out) = {1, 4}

\* what C27 asks of a state
Counted ==
    /\ pc = "loop" => Len(baselines) + nbad = i
    /\ pc = "raised" /\ error = BadFrameLimit => Len(baselines) + nbad = i + 1
    /\ pc = "done" =>
           /\ nbad <= BadLimit
           /\ result.N_bad = nbad
           /\ Len(baselines) = nframes - nbad
           /\ \A b \in DOMAIN result.baseline_lengths :
                  Len(result.baseline_lengths[b]) = nframes - result.N_bad

\* C27: after each frame the measured frames and the bad frames add up to the
\* frames processed, N_bad never decreases, and a returned result has
\* N_bad <= 100 and frame count - N_bad entries in every baseline series
C27_FramesAccounted == [](Counted) /\ [][nbad' >= nbad]_vars

\* C27 witness: a result of two measured frames and one bad frame
C27_Witness ==
    /\ pc = "done"
    /\ nframes = 3
    /\ nbad = 1
    /\ Len(result.baseline_lengths) >= 1
    /\ Len(result.baseline_lengths[1]) = 2

\* C28 as claimed: when the analysis raised, the cube is moved to
\* last_bad_seeing.ser, no row is appended, seeing.txt is left as it was and
\* the script ends through sys.exit(0) with no uncaught exception
C28_FailedAnalysisExitsCleanly ==
    Ended /\ seeing_data.raised =>
        /\ cube_at = "last_bad_seeing.ser"
        /\ ~RowAppended
        /\ seeing_txt = OldSeeingTxt
        /\ a_pc = "exit"
        /\ a_error = ""

====
